---- MODULE Spec2Model ----
(***************************************************************************)
(* cargo-pbuild: the schema ("spec") parser, the typed value system, the   *)
(* profile parser and the flag projection, modelled from src/src/spec.rs   *)
(* and src/src/profile.rs.                                                 *)
(*                                                                         *)
(* Strings are sequences of one-character strings, so that splitting,      *)
(* trimming, joining and snake-casing are computed and not assumed.        *)
(* A TOML value is a record tagged by `kind`; a TOML table and an IndexMap *)
(* are sequences of [k, v] entries with distinct keys, in iteration order. *)
(* A 64-bit integer is four 16-bit limbs <<l3, l2, l1, l0>> in two's       *)
(* complement (most significant first).                                    *)
(***************************************************************************)
EXTENDS Integers, Sequences, FiniteSets, TLC

VARIABLES value, schema, profile

vars == <<value, schema, profile>>

----------------------------------------------------------------------------
(* Generic helpers on sequences and ordered maps.                          *)

Range(s) == { s[i] : i \in 1..Len(s) }

\* Rust Option<T>
None == [some |-> FALSE]
Some(x) == [some |-> TRUE, v |-> x]

\* Option::map, Option::and_then
OptMap(o, F(_)) == IF o.some THEN Some(F(o.v)) ELSE None
OptAndThen(o, F(_)) == IF o.some THEN F(o.v) ELSE None

\* Results: Ok(v), Err(e), or a panic (an unwrap of None or Err, panic!,
\* todo!), which unwinds through every caller and returns nothing.
Ok(x) == [tag |-> "Ok", v |-> x]
Err(e) == [tag |-> "Err", e |-> e]
Panic == [tag |-> "Panic"]

IsOk(r) == r.tag = "Ok"
IsErr(r) == r.tag = "Err"
IsPanic(r) == r.tag = "Panic"

\* The `?` operator: go on with the value of an Ok, return anything else.
AndThen(r, F(_)) == IF IsOk(r) THEN F(r.v) ELSE r

\* Option::ok_or_else
OkOr(o, e) == IF o.some THEN Ok(o.v) ELSE Err(e)

\* Option::unwrap
Unwrap(o) == IF o.some THEN Ok(o.v) ELSE Panic

\* Result::unwrap
UnwrapResult(r) == IF IsOk(r) THEN r ELSE Panic

\* Map::contains_key / IndexMap::contains_key
ContainsKey(m, k) == \E i \in 1..Len(m) : m[i].k = k

\* Map::get / IndexMap::get
Get(m, k) ==
  IF ContainsKey(m, k)
  THEN Some(m[CHOOSE i \in 1..Len(m) : m[i].k = k].v)
  ELSE None

\* Map::keys, in iteration order
Keys(m) == [i \in 1..Len(m) |-> m[i].k]

\* IndexMap::insert: an existing key keeps its position and takes the new
\* value, a new key is appended.
Insert(m, k, v) ==
  IF ContainsKey(m, k)
  THEN [i \in 1..Len(m) |-> IF m[i].k = k THEN [k |-> k, v |-> v] ELSE m[i]]
  ELSE Append(m, [k |-> k, v |-> v])

\* IndexMap::entry(k).or_default()
EntryOrDefault(m, k, d) == IF ContainsKey(m, k) THEN m ELSE Append(m, [k |-> k, v |-> d])

DistinctKeys(m) == \A i, j \in 1..Len(m) : m[i].k = m[j].k => i = j

\* [String]::join(sep)
RECURSIVE Join(_, _)
Join(ss, sep) ==
  IF ss = <<>> THEN <<>>
  ELSE IF Len(ss) = 1 THEN ss[1]
  ELSE ss[1] \o sep \o Join(Tail(ss), sep)

\* str::starts_with
StartsWith(s, p) == Len(s) >= Len(p) /\ SubSeq(s, 1, Len(p)) = p

\* str::contains
Contains(s, p) == \E i \in 1..(Len(s) - Len(p) + 1) : SubSeq(s, i, i + Len(p) - 1) = p

\* str::split(p) for a non-empty pattern: the pieces between the
\* non-overlapping matches found left to right.
RECURSIVE SplitFrom(_, _, _)
SplitFrom(s, p, cur) ==
  IF s = <<>> THEN <<cur>>
  ELSE IF StartsWith(s, p)
  THEN <<cur>> \o SplitFrom(SubSeq(s, Len(p) + 1, Len(s)), p, <<>>)
  ELSE SplitFrom(Tail(s), p, Append(cur, Head(s)))

Split(s, p) == SplitFrom(s, p, <<>>)

\* str::trim (the model's only whitespace is the space)
RECURSIVE TrimStart(_)
TrimStart(s) == IF s # <<>> /\ Head(s) = " " THEN TrimStart(Tail(s)) ELSE s

RECURSIVE TrimEnd(_)
TrimEnd(s) ==
  IF s # <<>> /\ s[Len(s)] = " " THEN TrimEnd(SubSeq(s, 1, Len(s) - 1)) ELSE s

Trim(s) == TrimEnd(TrimStart(s))

----------------------------------------------------------------------------
(* String literals of the source.                                          *)

\* The string literals of the source, as sequences of characters.
Lit ==
  [spec |-> <<"s", "p", "e", "c">>,
   name |-> <<"n", "a", "m", "e">>,
   types |-> <<"t", "y", "p", "e", "s">>,
   key |-> <<"k", "e", "y">>,
   single |-> <<"s", "i", "n", "g", "l", "e">>,
   description |-> <<"d", "e", "s", "c", "r", "i", "p", "t", "i", "o", "n">>,
   dependencies |-> <<"d", "e", "p", "e", "n", "d", "e", "n", "c", "i", "e", "s">>,
   properties |-> <<"p", "r", "o", "p", "e", "r", "t", "i", "e", "s">>,
   type |-> <<"t", "y", "p", "e">>,
   default |-> <<"d", "e", "f", "a", "u", "l", "t">>,
   profile |-> <<"p", "r", "o", "f", "i", "l", "e">>,
   config |-> <<"c", "o", "n", "f", "i", "g">>,
   bins |-> <<"b", "i", "n", "s">>,
   libs |-> <<"l", "i", "b", "s">>,
   features |-> <<"f", "e", "a", "t", "u", "r", "e", "s">>,
   OR |-> <<"O", "R">>,
   colon |-> <<":">>,
   dot |-> <<".">>,
   comma_sp |-> <<",", " ">>,
   u8 |-> <<"u", "8">>,
   i8 |-> <<"i", "8">>,
   bool |-> <<"b", "o", "o", "l">>,
   string |-> <<"s", "t", "r", "i", "n", "g">>,
   array_string |-> <<"a", "r", "r", "a", "y", "<", "s", "t", "r", "i", "n", "g", ">">>,
   table |-> <<"t", "a", "b", "l", "e">>,
   Type_string |-> <<"T", "y", "p", "e", " ", "(", "s", "t", "r", "i", "n", "g", ")">>,
   map_string |-> <<"m", "a", "p", "<", "s", "t", "r", "i", "n", "g", ",", " ", "s", "t", "r", "i", "n", "g", ">">>,
   underscore |-> <<"_">>,
   cfg |-> <<"-", "-", "c", "f", "g">>,
   quote |-> <<"'">>,
   eq |-> <<"=">>,
   slash |-> <<"/">>,
   dash_p |-> <<"-", "p">>,
   dash_bin |-> <<"-", "-", "b", "i", "n">>,
   dash_lib |-> <<"-", "-", "l", "i", "b">>,
   dash_features |-> <<"-", "-", "f", "e", "a", "t", "u", "r", "e", "s">>,
   dquote |-> <<"\"">>,
   quote_comma_quote |-> <<"\"", ",", "\"">>,
   main |-> <<"m", "a", "i", "n">> ]

\* The names the documents use for categories, keys, fields, properties,
\* targets and features.
Name ==
  [a |-> <<"a">>,
   b |-> <<"b">>,
   c |-> <<"c">>,
   f |-> <<"f">>,
   g |-> <<"g">>,
   k |-> <<"k">>,
   m |-> <<"m">>,
   p |-> <<"p">>,
   q |-> <<"q">>,
   d |-> <<"d">>,
   z |-> <<"z">>,
   x |-> <<"x">>,
   y |-> <<"y">>,
   l |-> <<"l">>,
   u |-> <<"u">>,
   K |-> <<"K">>,
   k_f |-> <<"k", "_", "f">>,
   f_p |-> <<"f", "_", "p">>,
   p_x |-> <<"p", "/", "x">>,
   p_x_y |-> <<"p", "/", "x", "/", "y">> ]

\* Dependency strings: well formed, malformed, naming an unknown key.
DepStr ==
  [kf |-> <<"k", ":", "f">>,
   kf_or_mg |-> <<"k", ":", "f", " ", "O", "R", " ", "m", ":", "g">>,
   kf_or_z |-> <<"k", ":", "f", " ", "O", "R", " ", "z">>,
   malformed |-> <<"k", "f">>,
   two_colons |-> <<"k", ":", "f", ":", "g">>,
   unknown |-> <<"z", ":", "f">> ]

----------------------------------------------------------------------------
(* TOML values (toml::Value).                                              *)

TStr(s) == [kind |-> "String", s |-> s]
TInt(i) == [kind |-> "Integer", i |-> i]
TBool(b) == [kind |-> "Boolean", b |-> b]
TArr(a) == [kind |-> "Array", a |-> a]
TTbl(t) == [kind |-> "Table", t |-> t]
TFloat == [kind |-> "Float"]

\* A document text that toml::from_str rejects.
Malformed == [kind |-> "Malformed"]

KV(k, v) == [k |-> k, v |-> v]

\* toml::Value::as_str / as_bool / as_integer / as_array / as_table
as_str(x) == IF x.kind = "String" THEN Some(x.s) ELSE None
as_bool(x) == IF x.kind = "Boolean" THEN Some(x.b) ELSE None
as_integer(x) == IF x.kind = "Integer" THEN Some(x.i) ELSE None
as_array(x) == IF x.kind = "Array" THEN Some(x.a) ELSE None
as_table(x) == IF x.kind = "Table" THEN Some(x.t) ELSE None

\* toml::Value::get(key): only a table has keys
TGet(x, k) == IF x.kind = "Table" THEN Get(x.t, k) ELSE None

----------------------------------------------------------------------------
(* 64-bit integers as limbs.                                               *)

Limb == 2^16

\* The i64 holding the small integer n (|n| < 2^31), sign-extended.
I64(n) ==
  IF n >= 0
  THEN <<0, 0, n \div Limb, n % Limb>>
  ELSE <<Limb - 1, Limb - 1, (n \div Limb) % Limb, n % Limb>>

I64_MIN == <<Limb \div 2, 0, 0, 0>>
I64_MAX == <<Limb \div 2 - 1, Limb - 1, Limb - 1, Limb - 1>>

\* Signed comparison of two i64: a < b
SLimb(l) == IF l >= Limb \div 2 THEN l - Limb ELSE l

Lt64(a, b) ==
  \/ SLimb(a[1]) < SLimb(b[1])
  \/ a[1] = b[1] /\ a[2] < b[2]
  \/ a[1] = b[1] /\ a[2] = b[2] /\ a[3] < b[3]
  \/ a[1] = b[1] /\ a[2] = b[2] /\ a[3] = b[3] /\ a[4] < b[4]

----------------------------------------------------------------------------
(* The value system: Type, Value, Value::default, Value::new.              *)

IntTypes == {"U8", "U16", "U32", "U64", "I8", "I16", "I32", "I64"}
Type == {"String", "Bool"} \cup IntTypes

\* Type::parse
Type_parse(input) ==
  CASE input \in {Lit.string, <<"s", "t", "r">>, <<"S", "t", "r", "i", "n", "g">>} -> Some("String")
    [] input \in {Lit.bool, <<"B", "o", "o", "l">>, <<"b", "o", "o", "l", "e", "a", "n">>} -> Some("Bool")
    [] input = Lit.u8 -> Some("U8")
    [] input = <<"u", "1", "6">> -> Some("U16")
    [] input = <<"u", "3", "2">> -> Some("U32")
    [] input = <<"u", "6", "4">> -> Some("U64")
    [] input = Lit.i8 -> Some("I8")
    [] input = <<"i", "1", "6">> -> Some("I16")
    [] input = <<"i", "3", "2">> -> Some("I32")
    [] input = <<"i", "6", "4">> -> Some("I64")
    [] OTHER -> None

\* Type::as_str
Type_as_str(ty) ==
  CASE ty = "String" -> Lit.string
    [] ty = "Bool" -> Lit.bool
    [] ty = "U8" -> Lit.u8
    [] ty = "U16" -> <<"u", "1", "6">>
    [] ty = "U32" -> <<"u", "3", "2">>
    [] ty = "U64" -> <<"u", "6", "4">>
    [] ty = "I8" -> Lit.i8
    [] ty = "I16" -> <<"i", "1", "6">>
    [] ty = "I32" -> <<"i", "3", "2">>
    [] ty = "I64" -> <<"i", "6", "4">>

\* Width and signedness of the integer types.
Bits(ty) ==
  CASE ty \in {"U8", "I8"} -> 8
    [] ty \in {"U16", "I16"} -> 16
    [] ty \in {"U32", "I32"} -> 32
    [] ty \in {"U64", "I64"} -> 64

Signed(ty) == ty \in {"I8", "I16", "I32", "I64"}

\* T::MIN as i64
MinOf(ty) ==
  CASE ty = "I8" -> I64(-(2^7))
    [] ty = "I16" -> I64(-(2^15))
    [] ty = "I32" -> <<Limb - 1, Limb - 1, Limb \div 2, 0>>
    [] ty = "I64" -> I64_MIN
    [] OTHER -> I64(0)

\* T::MAX as i64 (u64::MAX has no i64: that conversion checks the sign only)
MaxOf(ty) ==
  CASE ty = "U8" -> I64(2^8 - 1)
    [] ty = "U16" -> I64(2^16 - 1)
    [] ty = "U32" -> <<0, 0, Limb - 1, Limb - 1>>
    [] ty = "I8" -> I64(2^7 - 1)
    [] ty = "I16" -> I64(2^15 - 1)
    [] ty = "I32" -> <<0, 0, Limb \div 2 - 1, Limb - 1>>
    [] OTHER -> I64_MAX

\* `x as T`: the low Bits(T) bits of x, as limbs (one limb below 2^8 for 8 bits)
Truncate(x, bits) ==
  CASE bits = 8 -> <<x[4] % 2^8>>
    [] bits = 16 -> <<x[4]>>
    [] bits = 32 -> <<x[3], x[4]>>
    [] bits = 64 -> x

\* i64::try_into::<T>().ok() as a plausible bug would have it: `x as T`
TryIntoWrapping(ty, x) == Some(Truncate(x, Bits(ty)))

\* i64::try_into::<T>().ok(): the checked narrowing of the standard library,
\* a range check against T::MIN and T::MAX, then the truncating cast.
TryInto(ty, x) ==
  IF Lt64(x, MinOf(ty)) \/ Lt64(MaxOf(ty), x)
  THEN None
  ELSE Some(Truncate(x, Bits(ty)))

Val(tag, v) == [tag |-> tag, v |-> v]

\* Value::default with one arm for every integer width: the zero of i64.
Value_default_wide(ty) ==
  CASE ty = "String" -> Val("String", <<>>)
    [] ty = "Bool" -> Val("Bool", FALSE)
    [] OTHER -> Val("I64", I64(0))

\* Value::default
Value_default(ty) ==
  CASE ty = "String" -> Val("String", <<>>)
    [] ty = "Bool" -> Val("Bool", FALSE)
    [] OTHER -> Val(ty, Truncate(I64(0), Bits(ty)))

\* Value::new
Value_new(ty, val) ==
  CASE ty = "String" -> OptMap(as_str(val), LAMBDA x : Val("String", x))
    [] ty = "Bool" -> OptMap(as_bool(val), LAMBDA x : Val("Bool", x))
    [] OTHER -> OptMap(OptAndThen(as_integer(val), LAMBDA x : TryInto(ty, x)),
                       LAMBDA x : Val(ty, x))

----------------------------------------------------------------------------
(* Error values of spec.rs.                                                *)

\* spec::Error::InvalidToml, profile::Error::Toml
InvalidToml == [variant |-> "InvalidToml"]

\* SpecError
SpecMissing == [variant |-> "SpecMissing"]
Spec_MissingField(f) == [variant |-> "Spec::MissingField", key |-> f]
Spec_InvalidFieldType(f, ty) ==
  [variant |-> "Spec::InvalidFieldType", key |-> f, ty |-> ty]
InvalidTypeValue(k) == [variant |-> "InvalidTypeValue", key |-> k]

\* FieldsError
ExcessKeys(msg) == [variant |-> "ExcessKeys", msg |-> msg]
MissingKeys(msg) == [variant |-> "MissingKeys", msg |-> msg]
MissingField(field, key) == [variant |-> "MissingField", field |-> field, key |-> key]
InvalidFieldType(field, key, ty) ==
  [variant |-> "InvalidFieldType", field |-> field, key |-> key, ty |-> ty]
SectionMissing(name) == [variant |-> "SectionMissing", field |-> name]

----------------------------------------------------------------------------
(* Dependency expressions (spec.rs, Dep and Dependencies).                 *)

\* types.values().find(|x| x.key == ty) / types.iter().find(..): the first
\* entry of the type catalog whose key is ty
FindByKey(types, ty) ==
  IF \E i \in 1..Len(types) : types[i].v.key = ty
  THEN Some(types[CHOOSE i \in 1..Len(types) :
                     /\ types[i].v.key = ty
                     /\ \A j \in 1..(i - 1) : types[j].v.key # ty])
  ELSE None

\* Dep::parse
Dep_parse(input, types) ==
  LET x == Split(input, Lit.colon)
  IN IF Len(x) # 2 THEN Err("()")
     ELSE IF ~FindByKey(types, x[1]).some THEN Err("()")
     ELSE Ok([ty |-> x[1], name |-> x[2]])

\* collect::<Result<Vec<_>, _>>() of the results rs, in order
RECURSIVE CollectResults(_, _)
CollectResults(rs, out) ==
  IF rs = <<>> THEN Ok(out)
  ELSE AndThen(Head(rs), LAMBDA v : CollectResults(Tail(rs), Append(out, v)))

\* One dependency line: `A OR B` or a single Dep; the parsed Deps are
\* unwrapped.
DependencyOp_parse(x, types) ==
  IF Contains(x, Lit.OR)
  THEN AndThen(UnwrapResult(CollectResults(
                 [i \in 1..Len(Split(x, Lit.OR)) |->
                    Dep_parse(Trim(Split(x, Lit.OR)[i]), types)], <<>>)),
               LAMBDA ors : Ok([op |-> "Or", deps |-> ors]))
  ELSE AndThen(UnwrapResult(Dep_parse(x, types)),
               LAMBDA d : Ok([op |-> "Dep", dep |-> d]))

\* Dependencies::parse
Dependencies_parse(types, raw) ==
  AndThen(CollectResults([i \in 1..Len(raw) |-> DependencyOp_parse(raw[i], types)],
                         <<>>),
          LAMBDA ops : Ok([op |-> "And", ops |-> ops]))

\* Dependencies::empty
Dependencies_empty == [op |-> "And", ops |-> <<>>]

----------------------------------------------------------------------------
(* PropSpec, Properties, FieldSpec.                                        *)

\* The default taken the way a profile value is: a value that cannot be
\* coerced becomes the type's zero value.
Default_parse_lenient(name, ty, d) ==
  IF ~d.some THEN Ok(None)
  ELSE IF Value_new(ty, d.v).some THEN Ok(Some(Value_new(ty, d.v).v))
  ELSE Ok(Some(Value_default(ty)))

\* The `default` of a property: Value::new, an error naming the property
\* when the value cannot be coerced.
Default_parse(name, ty, d) ==
  IF ~d.some THEN Ok(None)
  ELSE AndThen(OkOr(Value_new(ty, d.v),
                    InvalidFieldType(name, Lit.default, Type_as_str(ty))),
               LAMBDA v : Ok(Some(v)))

\* PropSpec::parse
PropSpec_parse(name, raw) ==
  AndThen(OkOr(TGet(raw, Lit.type), MissingField(name, Lit.type)),
    LAMBDA t :
  AndThen(OkOr(OptAndThen(as_str(t), Type_parse),
               InvalidFieldType(name, Lit.type, Lit.Type_string)),
    LAMBDA ty :
  AndThen(Default_parse(name, ty, TGet(raw, Lit.default)),
    LAMBDA default : Ok([ty |-> ty, default |-> default]))))

\* Properties::parse: the entries in order, stopping at the first error.
RECURSIVE Properties_collect(_, _, _)
Properties_collect(name, raw, out) ==
  IF raw = <<>> THEN Ok(out)
  ELSE AndThen(PropSpec_parse(name \o Lit.dot \o Head(raw).k, Head(raw).v),
               LAMBDA p : Properties_collect(name, Tail(raw),
                                             Insert(out, Head(raw).k, p)))

Properties_parse(name, raw) == Properties_collect(name, raw, <<>>)

\* Properties::empty
Properties_empty == <<>>

\* v.as_array().and_then(|x| x.iter().map(|x| x.as_str()).collect())
as_str_array(v) ==
  IF v.kind = "Array" /\ \A i \in 1..Len(v.a) : v.a[i].kind = "String"
  THEN Some([i \in 1..Len(v.a) |-> v.a[i].s])
  ELSE None

\* FieldSpec::parse, `description`
Description_parse(section, raw) ==
  AndThen(OkOr(Get(raw, Lit.description), MissingField(section, Lit.description)),
    LAMBDA d : OkOr(as_str(d), InvalidFieldType(section, Lit.description, Lit.string)))

\* FieldSpec::parse, `dependencies`
FieldDependencies_parse(section, types, rdep) ==
  IF ~rdep.some THEN Ok(Dependencies_empty)
  ELSE AndThen(OkOr(as_str_array(rdep.v),
                    InvalidFieldType(section, Lit.dependencies, Lit.array_string)),
               LAMBDA v : Dependencies_parse(types, v))

\* FieldSpec::parse, `properties`
FieldProperties_parse(section, rprop) ==
  IF ~rprop.some THEN Ok(Properties_empty)
  ELSE AndThen(OkOr(as_table(rprop.v),
                    InvalidFieldType(section, Lit.properties, Lit.table)),
               LAMBDA v : Properties_parse(section \o Lit.dot \o Lit.properties, v))

\* FieldSpec::parse
FieldSpec_parse(section, types, raw) ==
  AndThen(Description_parse(section, raw),
    LAMBDA description :
  AndThen(FieldDependencies_parse(section, types, Get(raw, Lit.dependencies)),
    LAMBDA dependencies :
  AndThen(FieldProperties_parse(section, Get(raw, Lit.properties)),
    LAMBDA properties :
      Ok([description |-> description,
          dependencies |-> dependencies,
          properties |-> properties]))))

----------------------------------------------------------------------------
(* Spec::parse_spec, Spec::parse_fields, Spec::parse_str.                  *)

\* One entry of [spec.types]: a bare string, or a table whose `key` is
\* unwrapped.
TypeSpec_of(k, v) ==
  CASE v.kind = "String" -> Ok([key |-> v.s, is_single |-> FALSE])
    [] v.kind = "Table" ->
         AndThen(Unwrap(OptAndThen(Get(v.t, Lit.key), as_str)),
                 LAMBDA key : Ok([key |-> key,
                                  is_single |-> Get(v.t, Lit.single).some]))
    [] OTHER -> Err(InvalidTypeValue(k))

\* The entries of [spec.types] in order, stopping at the first failure.
RECURSIVE Types_collect(_, _)
Types_collect(raw, out) ==
  IF raw = <<>> THEN Ok(out)
  ELSE AndThen(TypeSpec_of(Head(raw).k, Head(raw).v),
               LAMBDA ts : Types_collect(Tail(raw), Insert(out, Head(raw).k, ts)))

\* Spec::parse_spec
parse_spec(raw) ==
  AndThen(OkOr(OptAndThen(Get(raw, Lit.spec), as_table), SpecMissing),
    LAMBDA raw_spec :
  AndThen(OkOr(Get(raw_spec, Lit.name), Spec_MissingField(Lit.name)),
    LAMBDA n :
  AndThen(OkOr(as_str(n), Spec_InvalidFieldType(Lit.name, Lit.string)),
    LAMBDA name :
  AndThen(OkOr(Get(raw_spec, Lit.types), Spec_MissingField(Lit.types)),
    LAMBDA t :
  AndThen(OkOr(as_table(t), Spec_InvalidFieldType(Lit.types, Lit.map_string)),
    LAMBDA tt :
  AndThen(Types_collect(tt, <<>>),
    LAMBDA types : Ok([name |-> name, types |-> types])))))))

\* The fields of one category section, in order, stopping at the first
\* failure.
RECURSIVE Fields_collect(_, _, _, _)
Fields_collect(k, types, section, fields) ==
  IF section = <<>> THEN Ok(fields)
  ELSE AndThen(OkOr(as_table(Head(section).v),
                    SectionMissing(k \o Lit.dot \o Head(section).k)),
         LAMBDA tbl :
       AndThen(FieldSpec_parse(k \o Lit.dot \o Head(section).k, types, tbl),
         LAMBDA field_spec :
           Fields_collect(k, types, Tail(section),
                          Insert(fields, Head(section).k, field_spec))))

\* The loop of parse_fields over types.keys().
RECURSIVE Sections_collect(_, _, _, _)
Sections_collect(raw, types, ks, out) ==
  IF ks = <<>> THEN Ok(out)
  ELSE AndThen(OkOr(OptAndThen(Get(raw, Head(ks)), as_table),
                    SectionMissing(Head(ks))),
         LAMBDA section :
       AndThen(Fields_collect(Head(ks), types, section, <<>>),
         LAMBDA fields :
           Sections_collect(raw, types, Tail(ks), Insert(out, Head(ks), fields))))

\* The sections of the document that no declared type names.
undefined_types(raw, types) ==
  LET Undefined(x) == x # Lit.spec /\ ~ContainsKey(types, x)
  IN SelectSeq(Keys(raw), Undefined)

\* The declared types that have no section in the document.
missing_keys(raw, types) ==
  LET Missing(x) == x # Lit.spec /\ ~ContainsKey(raw, x)
  IN SelectSeq(Keys(types), Missing)

\* The cross-check stopping at the first offender it meets.
CrossCheckFirst(undefined, missing, ks) ==
  IF undefined # <<>> THEN Err(ExcessKeys(undefined[1]))
  ELSE IF missing # <<>> THEN Err(MissingKeys(missing[1]))
  ELSE Ok(ks)

\* No cross-check: the loop over the declared types is entered at once.
CrossCheckOff(undefined, missing, ks) == Ok(ks)

\* The cross-check of parse_fields: an Err, or Ok of the keys to parse.
CrossCheck(undefined, missing, ks) ==
  IF undefined # <<>> THEN Err(ExcessKeys(Join(undefined, Lit.comma_sp)))
  ELSE IF missing # <<>> THEN Err(MissingKeys(Join(missing, Lit.comma_sp)))
  ELSE Ok(ks)

\* Spec::parse_fields
parse_fields(raw, types) ==
  AndThen(CrossCheck(undefined_types(raw, types), missing_keys(raw, types),
                     Keys(types)),
          LAMBDA ks : Sections_collect(raw, types, ks, <<>>))

\* toml::from_str
from_str(s) == IF s.kind = "Malformed" THEN Err(InvalidToml) ELSE Ok(s.t)

\* Spec::parse_str: s is the document toml::from_str reads from the text
Spec_parse_str(s) ==
  AndThen(from_str(s),
    LAMBDA raw :
  AndThen(parse_spec(raw),
    LAMBDA nt :
  AndThen(parse_fields(raw, nt.types),
    LAMBDA fields :
      Ok([name |-> nt.name, types |-> nt.types, fields |-> fields]))))

----------------------------------------------------------------------------
(* Profile::parse_str (profile.rs). The config map is                      *)
(* IndexMap<TypeKey, IndexMap<FieldKey, IndexMap<String, Value>>>.         *)

NoBinsOrLibs == [variant |-> "NoBinsOrLibs"]

\* cli::LoadError
LoadError_Spec(e) == [variant |-> "LoadError::Spec", source |-> e]
MissingMainSpec == [variant |-> "MissingMainSpec"]

\* raw.get("profile").and_then(|x| x.get(key)).and_then(|x| x.as_array())
\*    .map(|x| x.iter().map(|x| x.as_str().unwrap().to_string()).collect())
\*    .unwrap_or_default()
string_list(raw, key) ==
  LET arr == OptAndThen(OptAndThen(Get(raw, Lit.profile), LAMBDA x : TGet(x, key)),
                        as_array)
  IN IF ~arr.some THEN Ok(<<>>)
     ELSE CollectResults([i \in 1..Len(arr.v) |-> Unwrap(as_str(arr.v[i]))], <<>>)

\* The bins/libs check left out.
bins_or_libs_unchecked(bins, libs) == Ok(TRUE)

\* if bins.is_empty() && libs.is_empty() { return Err(Error::NoBinsOrLibs) }
bins_or_libs(bins, libs) ==
  IF bins = <<>> /\ libs = <<>> THEN Err(NoBinsOrLibs) ELSE Ok(TRUE)

\* The head of Profile::parse_str, up to the unwrap of the [config] table:
\* bins, libs, the NoBinsOrLibs check, features, description.
parse_head(s) ==
  AndThen(from_str(s),
    LAMBDA raw :
  AndThen(string_list(raw, Lit.bins),
    LAMBDA bins :
  AndThen(string_list(raw, Lit.libs),
    LAMBDA libs :
  AndThen(bins_or_libs(bins, libs),
    LAMBDA checked :
  AndThen(string_list(raw, Lit.features),
    LAMBDA features :
  AndThen(Unwrap(OptAndThen(OptAndThen(Get(raw, Lit.profile),
                                       LAMBDA x : TGet(x, Lit.description)),
                            as_str)),
    LAMBDA description :
  AndThen(Unwrap(OptAndThen(Get(raw, Lit.config), as_table)),
    LAMBDA config_table :
      Ok([bins |-> bins, libs |-> libs, features |-> features,
          description |-> description])))))))) 

\* spec.fields.get(index).unwrap().get(&field).unwrap()
field_spec_of(spec, index, field) ==
  AndThen(Unwrap(Get(spec.fields, index)), LAMBDA fields : Unwrap(Get(fields, field)))

\* Profile::parse_config without the field lookup.
parse_config_unchecked(spec, ty, v, map) ==
  IF v.kind = "String" THEN Ok(Insert(map, v.s, <<>>)) ELSE Panic

\* Profile::parse_config: the map of category ty after the entry `ty = v`
parse_config(spec, ty, v, map) ==
  AndThen(Unwrap(FindByKey(spec.types, ty)),
    LAMBDA found :
      CASE v.kind = "String" ->
             AndThen(field_spec_of(spec, found.k, v.s),
                     LAMBDA field_spec : Ok(Insert(map, v.s, <<>>)))
        [] v.kind = "Table" -> Panic
        [] OTHER -> Panic)

\* One entry `k = v` of [config]: config.entry(k).or_default(), then parse_config
config_entry(spec, config, k, v) ==
  AndThen(parse_config(spec, k, v, Get(EntryOrDefault(config, k, <<>>), k).v),
          LAMBDA map : Ok(Insert(EntryOrDefault(config, k, <<>>), k, map)))

\* The explicit values of a field table: every key is looked up in the
\* field's properties (unwrap), every value is coerced, a value that cannot
\* be coerced becomes the type's default.
RECURSIVE explicit_props(_, _, _)
explicit_props(field_spec, t, out) ==
  IF t = <<>> THEN Ok(out)
  ELSE AndThen(Unwrap(Get(field_spec.properties, Head(t).k)),
         LAMBDA prop_spec :
           explicit_props(field_spec, Tail(t),
             Insert(out, Head(t).k,
                    IF Value_new(prop_spec.ty, Head(t).v).some
                    THEN Value_new(prop_spec.ty, Head(t).v).v
                    ELSE Value_default(prop_spec.ty))))

\* The back-fill with `contains_key` ignored: a default replaces the
\* explicit value.
RECURSIVE fill_defaults_over(_, _)
fill_defaults_over(properties, props) ==
  IF properties = <<>> THEN props
  ELSE fill_defaults_over(Tail(properties),
         IF Head(properties).v.default.some
         THEN Insert(props, Head(properties).k, Head(properties).v.default.v)
         ELSE props)

\* field_spec.properties.iter().for_each(..): every property with a default
\* that the table did not set is inserted with the default.
RECURSIVE fill_defaults(_, _)
fill_defaults(properties, props) ==
  IF properties = <<>> THEN props
  ELSE fill_defaults(Tail(properties),
         IF Head(properties).v.default.some /\ ~ContainsKey(props, Head(properties).k)
         THEN Insert(props, Head(properties).k, Head(properties).v.default.v)
         ELSE props)

\* The field entered with a fresh property map, whether or not it is there.
enable_reset(config, type_key, xk) ==
  LET c == EntryOrDefault(config, type_key, <<>>)
  IN Insert(c, type_key, Insert(Get(c, type_key).v, xk, <<>>))

\* config.entry(type_key).or_default().entry(xk).or_default()
enable(config, type_key, xk) ==
  LET c == EntryOrDefault(config, type_key, <<>>)
  IN Insert(c, type_key, EntryOrDefault(Get(c, type_key).v, xk, <<>>))

\* *config.entry(type_key).or_default().entry(xk).or_default() = props
set_props(config, type_key, xk, props) ==
  LET c == EntryOrDefault(config, type_key, <<>>)
  IN Insert(c, type_key, Insert(Get(c, type_key).v, xk, props))

\* One field entry `xk = xv` of the section of category type_index.
field_entry(spec, config, type_index, type_key, xk, xv) ==
  CASE xv.kind = "Boolean" ->
         AndThen(field_spec_of(spec, type_index, xk),
           LAMBDA field_spec :
             Ok(IF xv.b THEN enable(config, type_key, xk) ELSE config))
    [] xv.kind = "Table" ->
         AndThen(field_spec_of(spec, type_index, xk),
           LAMBDA field_spec :
         AndThen(explicit_props(field_spec, xv.t, <<>>),
           LAMBDA props :
             Ok(set_props(config, type_key, xk,
                          fill_defaults(field_spec.properties, props)))))
    [] OTHER -> Panic

\* The start of a category section `k = v`: the category is looked up by
\* TypeIndex and the section is unwrapped as a table.
section_start(spec, k, v) ==
  AndThen(Unwrap(Get(spec.types, k)),
    LAMBDA type_spec :
  AndThen(Unwrap(as_table(v)),
    LAMBDA t : Ok([index |-> k, key |-> type_spec.key])))

----------------------------------------------------------------------------
(* heck::SnakeCase, as cfg_flags_map uses it: the words of the text are    *)
(* the runs of letters, digits and underscores; inside a run a word ends   *)
(* before an underscore, between a lowercase and an uppercase letter, and  *)
(* before the last capital of a run of capitals followed by a lowercase    *)
(* letter; the words are lowercased and joined by underscores.             *)

LowerChars == <<"a", "b", "c", "d", "e", "f", "g", "h", "i", "j", "k", "l", "m",
                "n", "o", "p", "q", "r", "s", "t", "u", "v", "w", "x", "y", "z">>
UpperChars == <<"A", "B", "C", "D", "E", "F", "G", "H", "I", "J", "K", "L", "M",
                "N", "O", "P", "Q", "R", "S", "T", "U", "V", "W", "X", "Y", "Z">>
DigitChars == <<"0", "1", "2", "3", "4", "5", "6", "7", "8", "9">>

is_lowercase(c) == c \in Range(LowerChars)
is_uppercase(c) == c \in Range(UpperChars)
is_word_char(c) == is_lowercase(c) \/ is_uppercase(c) \/ c \in Range(DigitChars) \/ c = "_"

\* char::to_lowercase
to_lowercase(c) ==
  IF is_uppercase(c)
  THEN LowerChars[CHOOSE i \in 1..Len(UpperChars) : UpperChars[i] = c]
  ELSE c

lowercase(w) == [i \in 1..Len(w) |-> to_lowercase(w[i])]

\* str::unicode_words: the maximal runs of word characters
RECURSIVE unicode_words(_, _, _)
unicode_words(s, cur, out) ==
  IF s = <<>> THEN (IF cur = <<>> THEN out ELSE Append(out, cur))
  ELSE IF is_word_char(Head(s)) THEN unicode_words(Tail(s), Append(cur, Head(s)), out)
  ELSE unicode_words(Tail(s), <<>>, IF cur = <<>> THEN out ELSE Append(out, cur))

next_mode(c, mode) ==
  IF is_lowercase(c) THEN "Lowercase"
  ELSE IF is_uppercase(c) THEN "Uppercase"
  ELSE mode

\* The scan of one run: i is the position read, init the start of the
\* current word, mode the case of the letters read since init.
RECURSIVE transform_word(_, _, _, _, _)
transform_word(w, i, init, mode, out) ==
  IF i > Len(w) THEN out
  ELSE IF w[i] = "_"
  THEN transform_word(w, i + 1, IF init = i THEN init + 1 ELSE init, mode, out)
  ELSE IF i = Len(w) THEN Append(out, SubSeq(w, init, Len(w)))
  ELSE IF w[i + 1] = "_" \/ (next_mode(w[i], mode) = "Lowercase" /\ is_uppercase(w[i + 1]))
  THEN transform_word(w, i + 1, i + 1, "Boundary", Append(out, SubSeq(w, init, i)))
  ELSE IF mode = "Uppercase" /\ is_uppercase(w[i]) /\ is_lowercase(w[i + 1])
  THEN transform_word(w, i + 1, i, "Boundary", Append(out, SubSeq(w, init, i - 1)))
  ELSE transform_word(w, i + 1, init, next_mode(w[i], mode), out)

RECURSIVE transform(_, _)
transform(words, out) ==
  IF words = <<>> THEN out
  ELSE transform(Tail(words), transform_word(Head(words), 1, 1, "Boundary", out))

\* str::to_snake_case
to_snake_case(s) ==
  Join([i \in 1..Len(transform(unicode_words(s, <<>>, <<>>), <<>>)) |->
          lowercase(transform(unicode_words(s, <<>>, <<>>), <<>>)[i])],
       <<"_">>)

----------------------------------------------------------------------------
(* Profile::cfg_flags_map, Profile::rustc_cfg_flags, Profile::cargo_flags  *)

\* The properties written with a moving insert: a key written again is
\* taken out and appended at the end.
RECURSIVE flags_of_props_moving(_, _, _, _)
flags_of_props_moving(ty, ahh, brr, out) ==
  IF brr = <<>> THEN out
  ELSE flags_of_props_moving(ty, ahh, Tail(brr),
         SelectSeq(out, LAMBDA e :
             e.k # to_snake_case(ty \o Lit.underscore \o ahh \o Lit.underscore \o Head(brr).k))
           \o <<KV(to_snake_case(ty \o Lit.underscore \o ahh \o Lit.underscore \o Head(brr).k),
                   Head(brr).v)>>)

\* for (prop_key, prop_val) in brr { out.insert(snake(ty_ahh_prop_key), prop_val) }
RECURSIVE flags_of_props(_, _, _, _)
flags_of_props(ty, ahh, brr, out) ==
  IF brr = <<>> THEN out
  ELSE flags_of_props(ty, ahh, Tail(brr),
         Insert(out,
                to_snake_case(ty \o Lit.underscore \o ahh \o Lit.underscore \o Head(brr).k),
                Head(brr).v))

\* The field's own entry with is_single ignored: always Bool(true) at ty_ahh.
flag_of_field_plain(is_single, ty, ahh, out) ==
  Insert(out, to_snake_case(ty \o Lit.underscore \o ahh), Val("Bool", TRUE))

\* The field's own entry: String(ahh) at ty for an is_single category,
\* Bool(true) at ty_ahh otherwise.
flag_of_field(is_single, ty, ahh, out) ==
  IF is_single
  THEN Insert(out, to_snake_case(ty), Val("String", ahh))
  ELSE Insert(out, to_snake_case(ty \o Lit.underscore \o ahh), Val("Bool", TRUE))

\* for (ahh, brr) in v { .. }
RECURSIVE flags_of_fields(_, _, _, _)
flags_of_fields(is_single, ty, v, out) ==
  IF v = <<>> THEN out
  ELSE flags_of_fields(is_single, ty, Tail(v),
         flags_of_props(ty, Head(v).k, Head(v).v,
                        flag_of_field(is_single, ty, Head(v).k, out)))

\* Profile::cfg_flags_map: for (ty, v) in self.config.iter() { .. }
RECURSIVE flags_of_config(_, _, _)
flags_of_config(spec, config, out) ==
  IF config = <<>> THEN Ok(out)
  ELSE AndThen(Unwrap(FindByKey(spec.types, Head(config).k)),
         LAMBDA found :
           flags_of_config(spec, Tail(config),
             flags_of_fields(found.v.is_single, Head(config).k, Head(config).v, out)))

cfg_flags_map(spec, config) == flags_of_config(spec, config, <<>>)

\* The payload of an integer Value as big-endian digits of base 2^16 (2^8
\* for the 8-bit types) and the decimal text `{}` prints for it.
Base(ty) == IF Bits(ty) = 8 THEN 2^8 ELSE Limb

is_negative(ty, p) == Signed(ty) /\ p[1] >= Base(ty) \div 2

\* The two's complement of a payload: digits complemented, one added.
RECURSIVE add_one(_, _)
add_one(p, base) ==
  IF p = <<>> THEN <<>>
  ELSE IF p[Len(p)] = base - 1
  THEN Append(add_one(SubSeq(p, 1, Len(p) - 1), base), 0)
  ELSE Append(SubSeq(p, 1, Len(p) - 1), p[Len(p)] + 1)

magnitude(ty, p) ==
  IF is_negative(ty, p)
  THEN add_one([i \in 1..Len(p) |-> Base(ty) - 1 - p[i]], Base(ty))
  ELSE p

\* Long division of the digits by ten: the quotient and the remainder.
RECURSIVE div_ten(_, _, _, _)
div_ten(p, base, rem, quot) ==
  IF p = <<>> THEN [quot |-> quot, rem |-> rem]
  ELSE div_ten(Tail(p), base, (rem * base + Head(p)) % 10,
               Append(quot, (rem * base + Head(p)) \div 10))

RECURSIVE decimal(_, _, _)
decimal(p, base, out) ==
  IF \A i \in 1..Len(p) : p[i] = 0
  THEN (IF out = <<>> THEN <<"0">> ELSE out)
  ELSE decimal(div_ten(p, base, 0, <<>>).quot, base,
               <<DigitChars[div_ten(p, base, 0, <<>>).rem + 1]>> \o out)

\* <integer as Display>::fmt
fmt_integer(ty, p) ==
  (IF is_negative(ty, p) THEN <<"-">> ELSE <<>>)
    \o decimal(magnitude(ty, p), Base(ty), <<>>)

\* <str as Debug>::fmt: quoted, with quotes and backslashes escaped
fmt_debug(x) ==
  <<"\"">>
    \o Join([i \in 1..Len(x) |->
               IF x[i] \in {"\"", "\\"} THEN <<"\\", x[i]>> ELSE <<x[i]>>], <<>>)
    \o <<"\"">>

\* The quoted token of one flag
cfg_token(k, v) ==
  CASE v.tag = "String" -> Lit.quote \o k \o Lit.eq \o fmt_debug(v.v) \o Lit.quote
    [] v.tag = "Bool" -> Lit.quote \o k \o Lit.quote
    [] OTHER -> Lit.quote \o k \o Lit.eq \o fmt_integer(v.tag, v.v) \o Lit.quote

\* matches!(v, Value::Bool(false))
is_bool_false(v) == v.tag = "Bool" /\ ~v.v

\* The loop of rustc_cfg_flags without the `continue` on Bool(false).
RECURSIVE cfg_tokens_all(_, _)
cfg_tokens_all(map, out) ==
  IF map = <<>> THEN out
  ELSE cfg_tokens_all(Tail(map), out \o <<Lit.cfg, cfg_token(Head(map).k, Head(map).v)>>)

\* for (k, v) in map { if matches!(v, Value::Bool(false)) { continue; } .. }
RECURSIVE cfg_tokens(_, _)
cfg_tokens(map, out) ==
  IF map = <<>> THEN out
  ELSE IF is_bool_false(Head(map).v) THEN cfg_tokens(Tail(map), out)
  ELSE cfg_tokens(Tail(map), out \o <<Lit.cfg, cfg_token(Head(map).k, Head(map).v)>>)

\* Profile::rustc_cfg_flags
rustc_cfg_flags(spec, config) ==
  AndThen(cfg_flags_map(spec, config), LAMBDA map : Ok(cfg_tokens(map, <<>>)))

\* if !self.features.is_empty() { o.push("--features"); o.push("\"a\",\"b\"") }
with_features(o, features) ==
  IF features # <<>>
  THEN o \o <<Lit.dash_features, Lit.dquote \o Join(features, Lit.quote_comma_quote) \o Lit.dquote>>
  ELSE o

\* The group of one binary: the first two chunks of a name holding a "/"
bin_group(bin, features) ==
  with_features(
    IF Contains(bin, Lit.slash)
    THEN <<Lit.dash_p, Split(bin, Lit.slash)[1], Lit.dash_bin, Split(bin, Lit.slash)[2]>>
    ELSE <<Lit.dash_bin, bin>>,
    features)

lib_group(lib, features) == with_features(<<Lit.dash_lib, lib>>, features)

\* Profile::cargo_flags
cargo_flags(bins, libs, features) ==
  [i \in 1..Len(bins) |-> bin_group(bins[i], features)]
    \o [i \in 1..Len(libs) |-> lib_group(libs[i], features)]

----------------------------------------------------------------------------
(* Value::new and Value::default applied to raw scalars. The integers are  *)
(* the boundaries of every width, and 300.                                 *)

Idle == [pc |-> "idle"]

RawIntegers ==
  { I64(n) : n \in {0, 1, -1, 127, 128, -128, -129, 255, 256, 300,
                    32767, 32768, -32768, -32769, 65535, 65536,
                    2147483647, -2147483647} }
  \cup { MinOf("I32"), <<Limb - 1, Limb - 1, Limb \div 2 - 1, Limb - 1>>,
         <<0, 0, Limb \div 2, 0>>, MaxOf("U32"), <<0, 1, 0, 0>>,
         I64_MAX, I64_MIN }

RawScalars ==
  { TInt(i) : i \in RawIntegers }
  \cup { TStr(<<>>), TStr(<<"a">>), TBool(TRUE), TBool(FALSE), TFloat }

ValueInit ==
  /\ value \in [pc : {"input"}, ty : Type, raw : RawScalars]
  /\ schema = Idle
  /\ profile = Idle

\* Value::new(ty, &raw)
ValueNew ==
  /\ value.pc = "input"
  /\ value' = [pc |-> "new", ty |-> value.ty, raw |-> value.raw,
               res |-> Value_new(value.ty, value.raw)]
  /\ UNCHANGED <<schema, profile>>

\* Value::default(ty)
ValueDefault ==
  /\ value.pc = "input"
  /\ value' = [pc |-> "default", ty |-> value.ty, raw |-> value.raw,
               res |-> Some(Value_default(value.ty))]
  /\ UNCHANGED <<schema, profile>>

----------------------------------------------------------------------------
(* Spec::parse_str applied to schema documents. CrossDocs vary the [spec]  *)
(* table, the declared types and the top-level sections; FieldDocs vary    *)
(* the body of the fields of one category.                                 *)

MaxTypes == 2
MaxSections == 2
MaxFields == 2

\* The sequences of at most n entries with distinct keys from K and values
\* from V.
RECURSIVE Tables(_, _, _)
Tables(K, V, n) ==
  IF n = 0 THEN {<<>>}
  ELSE LET prev == Tables(K, V, n - 1)
       IN prev \cup UNION {
            { Append(t, KV(k, v)) :
                k \in { x \in K : \A i \in 1..(n - 1) : t[i].k # x }, v \in V } :
            t \in { u \in prev : Len(u) = n - 1 } }

\* Values of an entry of [spec.types].
TypeValues ==
  { TStr(Name.k),
    TTbl(<<KV(Lit.key, TStr(Name.m)), KV(Lit.single, TBool(TRUE))>>),
    TTbl(<<KV(Lit.single, TBool(TRUE))>>) }

SpecTable(types) == TTbl(<<KV(Lit.name, TStr(Name.d)), KV(Lit.types, TTbl(types))>>)

\* [spec] tables with a structural defect.
BrokenSpecTables ==
  { TInt(I64(1)),
    TTbl(<<KV(Lit.types, TTbl(<<>>))>>),
    TTbl(<<KV(Lit.name, TInt(I64(1))), KV(Lit.types, TTbl(<<>>))>>),
    TTbl(<<KV(Lit.name, TStr(Name.d))>>),
    TTbl(<<KV(Lit.name, TStr(Name.d)), KV(Lit.types, TStr(Name.k))>>),
    TTbl(<<KV(Lit.name, TStr(Name.d)),
           KV(Lit.types, TTbl(<<KV(Name.a, TStr(Name.k)), KV(Name.b, TInt(I64(1)))>>))>>) }

Field(entries) == TTbl(<<KV(Lit.description, TStr(Name.d))>> \o entries)

Prop(ty, default) == TTbl(<<KV(Lit.type, TStr(ty)), KV(Lit.default, default)>>)

\* Bodies of a category section in CrossDocs.
CrossBodies ==
  { TInt(I64(1)),
    TTbl(<<>>),
    TTbl(<<KV(Name.f, Field(<<>>))>>),
    TTbl(<<KV(Name.f, Field(<<KV(Lit.dependencies, TArr(<<TStr(DepStr.malformed)>>))>>))>>) }

CrossDocs ==
  { TTbl(<<KV(Lit.spec, sp)>> \o secs) :
      sp \in BrokenSpecTables
             \cup { SpecTable(t) : t \in Tables({Name.a, Name.b, Lit.spec}, TypeValues, MaxTypes) },
      secs \in Tables({Name.a, Name.b, Name.c}, CrossBodies, MaxSections) }

\* Bodies of a field in FieldDocs.
FieldBodies ==
  { TInt(I64(1)),
    TTbl(<<>>),
    TTbl(<<KV(Lit.description, TInt(I64(1)))>>),
    Field(<<>>),
    Field(<<KV(Lit.dependencies, TStr(DepStr.kf))>>),
    Field(<<KV(Lit.dependencies, TArr(<<TInt(I64(1))>>))>>),
    Field(<<KV(Lit.dependencies, TArr(<<TStr(DepStr.kf), TStr(DepStr.kf_or_mg)>>))>>),
    Field(<<KV(Lit.dependencies, TArr(<<TStr(DepStr.malformed)>>))>>),
    Field(<<KV(Lit.dependencies, TArr(<<TStr(DepStr.two_colons)>>))>>),
    Field(<<KV(Lit.dependencies, TArr(<<TStr(DepStr.unknown)>>))>>),
    Field(<<KV(Lit.dependencies, TArr(<<TStr(DepStr.kf_or_z)>>))>>),
    Field(<<KV(Lit.properties, TInt(I64(1)))>>),
    Field(<<KV(Lit.properties, TTbl(<<KV(Name.p, TInt(I64(1)))>>))>>),
    Field(<<KV(Lit.properties, TTbl(<<KV(Name.p, TTbl(<<KV(Lit.type, TStr(Name.k))>>))>>))>>),
    Field(<<KV(Lit.properties, TTbl(<<KV(Name.p, TTbl(<<KV(Lit.type, TStr(Lit.u8))>>))>>))>>),
    Field(<<KV(Lit.properties, TTbl(<<KV(Name.p, Prop(Lit.u8, TInt(I64(1))))>>))>>),
    Field(<<KV(Lit.properties, TTbl(<<KV(Name.p, Prop(Lit.u8, TInt(I64(300))))>>))>>),
    Field(<<KV(Lit.properties, TTbl(<<KV(Name.p, Prop(Lit.i8, TInt(I64(-1)))),
                                    KV(Name.q, Prop(Lit.u8, TInt(I64(-1))))>>))>>),
    Field(<<KV(Lit.properties, TTbl(<<KV(Name.p, Prop(Lit.bool, TStr(Name.k)))>>))>>),
    Field(<<KV(Lit.properties, TTbl(<<KV(Name.p, Prop(Lit.string, TStr(Name.k)))>>))>>),
    Field(<<KV(Lit.dependencies, TArr(<<TStr(DepStr.malformed)>>)),
            KV(Lit.properties, TTbl(<<KV(Name.p, Prop(Lit.u8, TInt(I64(300))))>>))>>) }

FieldDocTypes ==
  <<KV(Name.a, TStr(Name.k)),
    KV(Name.b, TTbl(<<KV(Lit.key, TStr(Name.m)), KV(Lit.single, TBool(TRUE))>>))>>

FieldDocs ==
  { TTbl(<<KV(Lit.spec, SpecTable(FieldDocTypes)),
           KV(Name.a, TTbl(fs)),
           KV(Name.b, TTbl(<<>>))>>) :
      fs \in Tables({Name.f, Name.g}, FieldBodies, MaxFields) }

SchemaDocs == {Malformed} \cup CrossDocs \cup FieldDocs

SchemaInit ==
  /\ schema \in [pc : {"input"}, raw : SchemaDocs]
  /\ value = Idle
  /\ profile = Idle

\* Spec::parse_str(text)
SpecParseStr ==
  /\ schema.pc = "input"
  /\ schema' = [pc |-> "parsed", raw |-> schema.raw,
                res |-> Spec_parse_str(schema.raw)]
  /\ UNCHANGED <<value, profile>>

----------------------------------------------------------------------------
(* The loader (cli.rs, load_data): a schema is parsed, then a profile is   *)
(* parsed against it. The profile document is read entry by entry, in the  *)
(* order of Profile::parse_str: the [profile] table, the entries of        *)
(* [config], then the entries of every other section. The document is any  *)
(* sequence of entries with distinct keys per table; `last` is the entry   *)
(* read last and `origin` the entry that last wrote each field of config.  *)

MaxEntries == 3

\* Schema 1: a single-valued category a (key k) with fields f and g, and a
\* category b (key m) whose field f has a defaulted u8 property p and a
\* bool property q without default.
SchemaDoc1 ==
  TTbl(<<KV(Lit.spec, SpecTable(
           <<KV(Name.a, TTbl(<<KV(Lit.key, TStr(Name.k)), KV(Lit.single, TBool(TRUE))>>)),
             KV(Name.b, TStr(Name.m))>>)),
         KV(Name.a, TTbl(<<KV(Name.f, Field(<<>>)), KV(Name.g, Field(<<>>))>>)),
         KV(Name.b, TTbl(<<KV(Name.f, Field(<<KV(Lit.properties, TTbl(
                            <<KV(Name.p, Prop(Lit.u8, TInt(I64(1)))),
                              KV(Name.q, TTbl(<<KV(Lit.type, TStr(Lit.bool))>>))>>))>>))>>))>>)

\* Schema 2: category a (key K) with a field f carrying a defaulted
\* property p and a field f_p, and a single-valued category c whose key is
\* k_f: the composed flag names of the two categories meet.
SchemaDoc2 ==
  TTbl(<<KV(Lit.spec, SpecTable(
           <<KV(Name.a, TStr(Name.K)),
             KV(Name.c, TTbl(<<KV(Lit.key, TStr(Name.k_f)), KV(Lit.single, TBool(TRUE))>>))>>)),
         KV(Name.a, TTbl(<<KV(Name.f, Field(<<KV(Lit.properties, TTbl(
                            <<KV(Name.p, Prop(Lit.u8, TInt(I64(1))))>>))>>)),
                        KV(Name.f_p, Field(<<>>))>>)),
         KV(Name.c, TTbl(<<KV(Name.g, Field(<<>>))>>))>>)

\* Schema 3: two categories a and b under the one key k.
SchemaDoc3 ==
  TTbl(<<KV(Lit.spec, SpecTable(<<KV(Name.a, TStr(Name.k)), KV(Name.b, TStr(Name.k))>>)),
         KV(Name.a, TTbl(<<KV(Name.f, Field(<<>>))>>)),
         KV(Name.b, TTbl(<<KV(Name.g, Field(<<>>))>>))>>)

\* Schema 4: two categories a and b under the one key k that both have a
\* field f; a's f carries a defaulted property p.
SchemaDoc4 ==
  TTbl(<<KV(Lit.spec, SpecTable(<<KV(Name.a, TStr(Name.k)), KV(Name.b, TStr(Name.k))>>)),
         KV(Name.a, TTbl(<<KV(Name.f, Field(<<KV(Lit.properties, TTbl(
                            <<KV(Name.p, Prop(Lit.u8, TInt(I64(1))))>>))>>))>>)),
         KV(Name.b, TTbl(<<KV(Name.f, Field(<<>>))>>))>>)

SampleSchemaDocs == {SchemaDoc1, SchemaDoc2, SchemaDoc3, SchemaDoc4}

ProfileTable(entries) == KV(Lit.profile, TTbl(entries))
Desc == KV(Lit.description, TStr(Name.d))
StrArr(ss) == TArr([i \in 1..Len(ss) |-> TStr(ss[i])])
ConfigTable == KV(Lit.config, TTbl(<<>>))

\* The [profile] table and the presence of [config] in a profile document.
ProfileHeads ==
  { Malformed,
    TTbl(<<ConfigTable>>),
    TTbl(<<KV(Lit.profile, TInt(I64(1))), ConfigTable>>),
    TTbl(<<ProfileTable(<<Desc>>), ConfigTable>>),
    TTbl(<<ProfileTable(<<KV(Lit.features, TArr(<<TInt(I64(1))>>))>>)>>),
    TTbl(<<ProfileTable(<<KV(Lit.bins, StrArr(<<>>)), KV(Lit.description, TInt(I64(1)))>>),
           KV(Lit.config, TInt(I64(1)))>>),
    TTbl(<<ProfileTable(<<KV(Lit.bins, StrArr(<<>>)), KV(Lit.libs, StrArr(<<>>)), Desc>>),
           ConfigTable>>),
    TTbl(<<ProfileTable(<<KV(Lit.bins, TStr(Name.x)), KV(Lit.features, StrArr(<<Name.u>>))>>)>>),
    TTbl(<<ProfileTable(<<KV(Lit.bins, StrArr(<<Name.x>>)), Desc>>), ConfigTable>>),
    TTbl(<<ProfileTable(<<KV(Lit.bins, StrArr(<<Name.p_x, Name.p_x_y>>)),
                          KV(Lit.libs, StrArr(<<Name.l>>)),
                          KV(Lit.features, StrArr(<<Name.u, Name.y>>)), Desc>>),
           ConfigTable>>),
    TTbl(<<ProfileTable(<<KV(Lit.bins, TArr(<<TInt(I64(1))>>)), Desc>>), ConfigTable>>),
    TTbl(<<ProfileTable(<<KV(Lit.libs, TArr(<<TInt(I64(1))>>)), Desc>>), ConfigTable>>),
    TTbl(<<ProfileTable(<<KV(Lit.libs, StrArr(<<Name.l>>)),
                          KV(Lit.features, TArr(<<TInt(I64(1))>>)), Desc>>),
           ConfigTable>>),
    TTbl(<<ProfileTable(<<KV(Lit.libs, StrArr(<<Name.l>>))>>), ConfigTable>>),
    TTbl(<<ProfileTable(<<KV(Lit.libs, StrArr(<<Name.l>>)),
                          KV(Lit.description, TInt(I64(1)))>>),
           ConfigTable>>),
    TTbl(<<ProfileTable(<<KV(Lit.libs, StrArr(<<Name.l>>)), Desc>>)>>),
    TTbl(<<ProfileTable(<<KV(Lit.libs, StrArr(<<Name.l>>)), Desc>>),
           KV(Lit.config, TInt(I64(1)))>>) }

\* The names a profile document may use against a schema: the schema's own
\* and one it does not know.
TypeKeysOf(spec) == { spec.types[i].v.key : i \in 1..Len(spec.types) }
TypeIndexesOf(spec) == { spec.types[i].k : i \in 1..Len(spec.types) }
FieldKeysOf(spec) ==
  UNION { { spec.fields[i].v[j].k : j \in 1..Len(spec.fields[i].v) } :
          i \in 1..Len(spec.fields) }

CategoryNames(spec) == TypeKeysOf(spec) \cup TypeIndexesOf(spec) \cup {Name.z}
FieldNames(spec) == FieldKeysOf(spec) \cup {Name.z}

\* Values of an entry of [config].
ConfigValues(spec) ==
  { TStr(f) : f \in FieldNames(spec) } \cup { TTbl(<<>>), TInt(I64(1)) }

\* Tables given to a field.
PropTables ==
  { <<>>,
    <<KV(Name.p, TInt(I64(5)))>>,
    <<KV(Name.p, TInt(I64(300)))>>,
    <<KV(Name.q, TBool(FALSE))>>,
    <<KV(Name.q, TInt(I64(1))), KV(Name.p, TInt(I64(5)))>>,
    <<KV(Name.z, TInt(I64(1)))>> }

\* Values of a field entry.
FieldValues ==
  { TBool(TRUE), TBool(FALSE), TInt(I64(1)) } \cup { TTbl(t) : t \in PropTables }

\* A schema file of ./profiles/specs: its file stem and its text.
File(stem, raw) == [stem |-> stem, raw |-> raw]

\* A schema whose field names a dependency without `:`.
SchemaDocDep ==
  TTbl(<<KV(Lit.spec, SpecTable(<<KV(Name.a, TStr(Name.k))>>)),
         KV(Name.a, TTbl(<<KV(Name.f, Field(<<KV(Lit.dependencies,
                                               TArr(<<TStr(DepStr.malformed)>>))>>))>>))>>)

\* The directories of schema files, in read_dir order: main.toml alone,
\* main.toml beside x.toml in either order, sound or not, and none named
\* main.
SpecsDirs ==
  { <<File(Lit.main, d)>> : d \in SampleSchemaDocs }
    \cup { <<>>,
           <<File(Name.x, SchemaDoc1)>>,
           <<File(Lit.main, Malformed)>>,
           <<File(Lit.main, SchemaDocDep)>>,
           <<File(Lit.main, SchemaDoc3), File(Name.x, SchemaDoc1)>>,
           <<File(Name.x, SchemaDoc1), File(Lit.main, SchemaDoc3)>>,
           <<File(Lit.main, SchemaDoc3), File(Name.x, Malformed)>>,
           <<File(Name.x, Malformed), File(Lit.main, SchemaDoc3)>>,
           <<File(Name.x, SchemaDocDep), File(Lit.main, SchemaDoc3)>> }

\* load_data before its first loop: no schema parsed, no profile parsed.
LoadInit ==
  /\ schema \in [pc : {"specs"}, files : SpecsDirs, specs : {<<>>}]
  /\ profile = [pc |-> "wait"]
  /\ value = Idle

\* specs.insert(stem, Spec::parse_path(&p)?) with r the result of the parse
load_spec(state, stem, r) ==
  IF IsOk(r)
  THEN [state EXCEPT !.specs = Insert(@, stem, r.v)]
  ELSE [state EXCEPT !.pc = "failed"] @@
       [res |-> IF IsErr(r) THEN Err(LoadError_Spec(r.e)) ELSE Panic]

\* load_data, first loop: the next schema file of the directory.
LoadSpec ==
  /\ schema.pc = "specs"
  /\ Len(schema.specs) < Len(schema.files)
  /\ schema' = load_spec(schema, schema.files[Len(schema.specs) + 1].stem,
                         Spec_parse_str(schema.files[Len(schema.specs) + 1].raw))
  /\ UNCHANGED <<value, profile>>

\* load_data: match specs.get("main") { None => return Err(MissingMainSpec) }
LoadMainSpec ==
  /\ schema.pc = "specs"
  /\ Len(schema.specs) = Len(schema.files)
  /\ schema' =
       IF ContainsKey(schema.specs, Lit.main)
       THEN [schema EXCEPT !.pc = "parsed"] @@
            [raw |-> schema.files[CHOOSE i \in 1..Len(schema.files) :
                                    schema.files[i].stem = Lit.main].raw,
             res |-> Ok(Get(schema.specs, Lit.main).v)]
       ELSE [schema EXCEPT !.pc = "failed"] @@ [res |-> Err(MissingMainSpec)]
  /\ UNCHANGED <<value, profile>>

Failed(r, last) == [pc |-> "failed", res |-> r, last |-> last]

Entry(kind, k, v) == [kind |-> kind, k |-> k, v |-> v]

\* Profile::parse_str up to the [config] table.
ProfileParseHead ==
  /\ profile.pc = "wait"
  /\ schema.pc = "parsed"
  /\ IsOk(schema.res)
  /\ \E h \in ProfileHeads :
       LET r == parse_head(h)
           last == Entry("head", Lit.profile, h)
       IN profile' =
            IF IsOk(r)
            THEN [pc |-> "config", spec |-> schema.res.v,
                  bins |-> r.v.bins, libs |-> r.v.libs,
                  features |-> r.v.features, description |-> r.v.description,
                  config |-> <<>>, origin |-> <<>>, seen |-> {}, n |-> 0,
                  last |-> last]
            ELSE Failed(r, last)
  /\ UNCHANGED <<value, schema>>

\* The next entry `k = v` of [config].
ProfileConfigEntry ==
  /\ profile.pc = "config"
  /\ profile.n < MaxEntries
  /\ \E k \in CategoryNames(profile.spec) \ profile.seen,
        v \in ConfigValues(profile.spec) :
       LET r == config_entry(profile.spec, profile.config, k, v)
           last == Entry("config", k, v)
       IN profile' =
            IF IsOk(r)
            THEN [profile EXCEPT !.config = r.v,
                                 !.origin = Insert(@, <<k, v.s>>, last),
                                 !.seen = @ \cup {k},
                                 !.n = @ + 1,
                                 !.last = last]
            ELSE Failed(r, last)
  /\ UNCHANGED <<value, schema>>

\* The end of [config]: the other sections follow.
ProfileConfigEnd ==
  /\ profile.pc = "config"
  /\ profile' = [profile EXCEPT !.pc = "sections", !.seen = {}]
  /\ UNCHANGED <<value, schema>>

\* The next section `[k]` of the document.
ProfileSectionStart ==
  /\ profile.pc = "sections"
  /\ \E k \in CategoryNames(profile.spec) \ profile.seen,
        v \in {TTbl(<<>>), TInt(I64(1))} :
       LET r == section_start(profile.spec, k, v)
           last == Entry("section", k, v)
       IN profile' =
            IF IsOk(r)
            THEN [pc |-> "fields", cur |-> r.v, seenF |-> {}] @@
                 [profile EXCEPT !.seen = @ \cup {k}, !.last = last]
            ELSE Failed(r, last)
  /\ UNCHANGED <<value, schema>>

\* The next field entry `xk = xv` of the current section.
ProfileFieldEntry ==
  /\ profile.pc = "fields"
  /\ profile.n < MaxEntries
  /\ \E xk \in FieldNames(profile.spec) \ profile.seenF, xv \in FieldValues :
       LET r == field_entry(profile.spec, profile.config, profile.cur.index,
                            profile.cur.key, xk, xv)
           last == Entry("field", <<profile.cur.index, xk>>, xv)
           key == <<profile.cur.key, xk>>
       IN profile' =
            IF IsOk(r)
            THEN [profile EXCEPT
                    !.config = r.v,
                    !.origin = IF xv.kind = "Table"
                                  \/ (xv.b /\ ~ContainsKey(profile.origin, key))
                               THEN Insert(@, key, last)
                               ELSE @,
                    !.seenF = @ \cup {xk},
                    !.n = @ + 1,
                    !.last = last]
            ELSE Failed(r, last)
  /\ UNCHANGED <<value, schema>>

\* The end of the current section.
ProfileSectionEnd ==
  /\ profile.pc = "fields"
  /\ profile' = [profile EXCEPT !.pc = "sections"]
  /\ UNCHANGED <<value, schema>>

\* The end of the document: Ok(Profile { .. }).
ProfileFinish ==
  /\ profile.pc = "sections"
  /\ profile' = [profile EXCEPT !.pc = "done"]
  /\ UNCHANGED <<value, schema>>

\* load_data, second loop: profiles.insert(stem, profile), then the next
\* profile file.
LoadNextProfile ==
  /\ profile.pc = "done"
  /\ profile' = [pc |-> "wait"]
  /\ UNCHANGED <<value, schema>>

\* profile.cfg_flags_map() on a returned Profile
CfgFlagsMap ==
  /\ profile.pc = "done"
  /\ profile' = [op |-> "cfg_flags_map",
                 out |-> cfg_flags_map(profile.spec, profile.config)] @@
                [profile EXCEPT !.pc = "projected"]
  /\ UNCHANGED <<value, schema>>

\* profile.rustc_cfg_flags() on a returned Profile
RustcCfgFlags ==
  /\ profile.pc = "done"
  /\ profile' = [op |-> "rustc_cfg_flags",
                 out |-> rustc_cfg_flags(profile.spec, profile.config)] @@
                [profile EXCEPT !.pc = "projected"]
  /\ UNCHANGED <<value, schema>>

\* profile.cargo_flags() on a returned Profile
CargoFlags ==
  /\ profile.pc = "done"
  /\ profile' = [op |-> "cargo_flags",
                 out |-> Ok(cargo_flags(profile.bins, profile.libs, profile.features))] @@
                [profile EXCEPT !.pc = "projected"]
  /\ UNCHANGED <<value, schema>>

Init == ValueInit \/ SchemaInit \/ LoadInit

Next ==
  \/ ValueNew
  \/ ValueDefault
  \/ SpecParseStr
  \/ LoadSpec
  \/ LoadMainSpec
  \/ ProfileParseHead
  \/ ProfileConfigEntry
  \/ ProfileConfigEnd
  \/ ProfileSectionStart
  \/ ProfileFieldEntry
  \/ ProfileSectionEnd
  \/ ProfileFinish
  \/ LoadNextProfile
  \/ CfgFlagsMap
  \/ RustcCfgFlags
  \/ CargoFlags

Spec == Init /\ [][Next]_vars

----------------------------------------------------------------------------
(* C1 *)

\* The range of each integer type, read off the limbs of the raw i64.
AllLimbs(x, hi, l) == \A i \in 1..hi : x[i] = l

InRange(ty, x) ==
  CASE ty = "U8" -> AllLimbs(x, 3, 0) /\ x[4] < 2^8
    [] ty = "U16" -> AllLimbs(x, 3, 0)
    [] ty = "U32" -> AllLimbs(x, 2, 0)
    [] ty = "U64" -> x[1] < Limb \div 2
    [] ty = "I8" -> \/ AllLimbs(x, 3, 0) /\ x[4] < 2^7
                    \/ AllLimbs(x, 3, Limb - 1) /\ x[4] >= Limb - 2^7
    [] ty = "I16" -> \/ AllLimbs(x, 3, 0) /\ x[4] < 2^15
                     \/ AllLimbs(x, 3, Limb - 1) /\ x[4] >= 2^15
    [] ty = "I32" -> \/ AllLimbs(x, 2, 0) /\ x[3] < 2^15
                     \/ AllLimbs(x, 2, Limb - 1) /\ x[3] >= 2^15
    [] ty = "I64" -> TRUE

\* The i64 a stored payload stands for: zero- or sign-extended to 64 bits.
Extend(ty, p) ==
  LET neg == Signed(ty) /\ (IF Bits(ty) = 8 THEN p[1] >= 2^7 ELSE p[1] >= 2^15)
      f == IF neg THEN Limb - 1 ELSE 0
  IN CASE Bits(ty) = 8 -> <<f, f, f, IF neg THEN p[1] + (Limb - 2^8) ELSE p[1]>>
       [] Bits(ty) = 16 -> <<f, f, f, p[1]>>
       [] Bits(ty) = 32 -> <<f, f, p[1], p[2]>>
       [] Bits(ty) = 64 -> p

\* C1: for every integer type t and raw 64-bit integer v, Value::new(t, v)
\* is a Value of tag t holding exactly v when v is in the range of t, and
\* None (never a clamped or wrapped value) when v is outside it.
C1_RangeChecked ==
  (value.pc = "new" /\ value.ty \in IntTypes /\ value.raw.kind = "Integer") =>
     IF InRange(value.ty, value.raw.i)
     THEN /\ value.res.some
          /\ value.res.v.tag = value.ty
          /\ Extend(value.ty, value.res.v.v) = value.raw.i
     ELSE ~value.res.some

\* 300 offered to a u8 has been refused.
C1_Witness ==
  /\ value.pc = "new"
  /\ value.ty = "U8"
  /\ value.raw = TInt(I64(300))
  /\ ~value.res.some

----------------------------------------------------------------------------
(* C2, C3 *)

\* The categories a schema document declares under [spec.types], the
\* sections it has beside [spec], and the offenders of each direction.
DeclaredNames(doc) == Range(Keys(Get(Get(doc, Lit.spec).v.t, Lit.types).v.t))
SectionNames(doc) == Range(Keys(doc)) \ {Lit.spec}
Undeclared(doc) == SectionNames(doc) \ DeclaredNames(doc)
Unsectioned(doc) == DeclaredNames(doc) \ Range(Keys(doc))

\* Spec::parse_str has run on a document whose [spec] table is well formed.
CrossChecked ==
  /\ schema.pc = "parsed"
  /\ schema.raw.kind = "Table"
  /\ IsOk(parse_spec(schema.raw.t))

\* The names a cross-check error lists.
Named(e) == Range(Split(e.msg, Lit.comma_sp))

\* C2 as stated: a document with an undeclared section and a declared type
\* without section fails with one error naming the offenders of both
\* directions.
C2_Original ==
  (CrossChecked /\ Undeclared(schema.raw.t) # {} /\ Unsectioned(schema.raw.t) # {}) =>
     /\ IsErr(schema.res)
     /\ schema.res.e.variant \in {"ExcessKeys", "MissingKeys"}
     /\ Named(schema.res.e) = Undeclared(schema.raw.t) \cup Unsectioned(schema.raw.t)

\* C2: the cross-check names every offender of one direction only: a
\* document with undeclared sections fails with ExcessKeys naming all the
\* undeclared sections and none of the missing ones; a document without
\* undeclared sections and with declared types lacking a section fails with
\* MissingKeys naming all of those.
C2_OneDirection ==
  CrossChecked =>
     /\ Undeclared(schema.raw.t) # {} =>
          /\ IsErr(schema.res)
          /\ schema.res.e.variant = "ExcessKeys"
          /\ Named(schema.res.e) = Undeclared(schema.raw.t)
     /\ (Undeclared(schema.raw.t) = {} /\ Unsectioned(schema.raw.t) # {}) =>
          /\ IsErr(schema.res)
          /\ schema.res.e.variant = "MissingKeys"
          /\ Named(schema.res.e) = Unsectioned(schema.raw.t)

\* Two undeclared sections and a declared type without section have been
\* cross-checked.
C2_Witness ==
  /\ CrossChecked
  /\ Cardinality(Undeclared(schema.raw.t)) = 2
  /\ Unsectioned(schema.raw.t) # {}
  /\ IsErr(schema.res)

\* C3: in every Spec returned by Spec::parse_str the keys of `fields` are
\* the keys of `types`, which are the declared categories and the names of
\* the document's sections beside [spec]; a document whose section names
\* differ from the declared categories yields no Spec.
C3_FieldsMatchTypes ==
  (schema.pc = "parsed" /\ IsOk(schema.res)) =>
     /\ Keys(schema.res.v.fields) = Keys(schema.res.v.types)
     /\ DistinctKeys(schema.res.v.fields)
     /\ Range(Keys(schema.res.v.types)) = DeclaredNames(schema.raw.t)
     /\ SectionNames(schema.raw.t) = DeclaredNames(schema.raw.t)

\* A Spec of two categories, one of them with an empty field catalog.
C3_Witness ==
  /\ schema.pc = "parsed"
  /\ IsOk(schema.res)
  /\ Len(schema.res.v.types) = 2
  /\ \E i, j \in 1..2 : schema.res.v.fields[i].v = <<>> /\ schema.res.v.fields[j].v # <<>>

----------------------------------------------------------------------------
(* C4, C9, C10 *)

\* The schema a profile is read against, and the stages of the reading.
TheSpec == schema.res.v
Reading == profile.pc \in {"config", "sections", "fields"}
Returned == profile.pc \in {"done", "projected"}
Read(kind) == profile.pc \notin {"idle", "wait"} /\ profile.last.kind = kind

\* The categories of the schema under a key, the fields of a category and
\* the properties of one of its fields.
CategoriesOf(spec, key) == { i \in 1..Len(spec.types) : spec.types[i].v.key = key }
FieldsOf(spec, i) == Get(spec.fields, spec.types[i].k).v
PropertiesOf(spec, i, f) == Get(FieldsOf(spec, i), f).v.properties

\* Field f with the property names ps is a field of category i.
Declares(spec, i, f, ps) ==
  /\ ContainsKey(FieldsOf(spec, i), f)
  /\ ps \subseteq Range(Keys(PropertiesOf(spec, i, f)))

ConfigKnown(spec, config) ==
  \A c \in 1..Len(config) :
    /\ CategoriesOf(spec, config[c].k) # {}
    /\ \A f \in 1..Len(config[c].v) :
         \E i \in CategoriesOf(spec, config[c].k) :
           Declares(spec, i, config[c].v[f].k, Range(Keys(config[c].v[f].v)))

\* The entry read last names a category, a field or a property that the
\* schema does not have.
LastUnknown(spec, last) ==
  \/ /\ last.kind = "config"
     /\ \/ CategoriesOf(spec, last.k) = {}
        \/ /\ last.v.kind = "String"
           /\ \A i \in CategoriesOf(spec, last.k) : ~ContainsKey(FieldsOf(spec, i), last.v.s)
  \/ /\ last.kind = "section"
     /\ ~ContainsKey(spec.types, last.k)
  \/ /\ last.kind = "field"
     /\ last.v.kind \in {"Boolean", "Table"}
     /\ LET fields == Get(spec.fields, last.k[1]).v
        IN \/ ~ContainsKey(fields, last.k[2])
           \/ /\ last.v.kind = "Table"
              /\ ~(Range(Keys(last.v.t))
                     \subseteq Range(Keys(Get(fields, last.k[2]).v.properties)))

\* C4: while a profile is read and in every Profile returned, every TypeKey
\* of config is the key of a category of the spec, every FieldKey under it
\* a field of such a category and every property name a property of that
\* field; an entry naming an unknown category, field or property ends the
\* parse without a Profile.
C4_ConfigKnown ==
  /\ (Reading \/ Returned) => ConfigKnown(TheSpec, profile.config)
  /\ (profile.pc \notin {"idle", "wait"} /\ LastUnknown(TheSpec, profile.last)) =>
        profile.pc = "failed"

\* A Profile whose config holds a field selected under [config] and a field
\* given a property in its section.
C4_Witness ==
  /\ profile.pc = "done"
  /\ \E c \in 1..Len(profile.config) : \E f, g \in 1..Len(profile.config[c].v) :
       /\ profile.config[c].v[f].v # <<>>
       /\ profile.origin[CHOOSE j \in 1..Len(profile.origin) :
                           profile.origin[j].k = <<profile.config[c].k,
                                                   profile.config[c].v[g].k>>].v.kind
            = "config"

\* profile.bins / profile.libs is absent from the document or an empty array.
AbsentOrEmpty(doc, key) ==
  \/ ~ContainsKey(doc, Lit.profile)
  \/ ~TGet(Get(doc, Lit.profile).v, key).some
  \/ TGet(Get(doc, Lit.profile).v, key).v = TArr(<<>>)

\* C9: a document whose profile.bins and profile.libs are both absent or
\* empty gets the NoBinsOrLibs error whatever else it holds, and every
\* Profile returned has a non-empty bins or a non-empty libs.
C9_NoBinsOrLibs ==
  /\ (/\ Read("head")
      /\ profile.last.v.kind = "Table"
      /\ AbsentOrEmpty(profile.last.v.t, Lit.bins)
      /\ AbsentOrEmpty(profile.last.v.t, Lit.libs)) =>
        /\ profile.pc = "failed"
        /\ profile.res = Err(NoBinsOrLibs)
  /\ (Reading \/ Returned) => (profile.bins # <<>> \/ profile.libs # <<>>)

\* A document with empty bins and libs, no string description and no
\* [config] table has been refused.
C9_Witness ==
  /\ Read("head")
  /\ profile.last.v.kind = "Table"
  /\ ContainsKey(profile.last.v.t, Lit.profile)
  /\ ContainsKey(profile.last.v.t, Lit.config)
  /\ TGet(Get(profile.last.v.t, Lit.profile).v, Lit.bins) = Some(TArr(<<>>))
  /\ ~as_table(Get(profile.last.v.t, Lit.config).v).some
  /\ profile.res = Err(NoBinsOrLibs)

\* C10 as stated: every failure of parsing a schema or a profile is an Err
\* value returned to the caller, never an abort.
C10_TypedErrors ==
  /\ schema.pc = "parsed" => ~IsPanic(schema.res)
  /\ profile.pc = "failed" => ~IsPanic(profile.res)

----------------------------------------------------------------------------
(* C5, C6 *)

\* The entry that last wrote field fk of the category key tk into config,
\* and the properties the schema declares for the field that entry names.
OriginOf(tk, fk) == Get(profile.origin, <<tk, fk>>).v

OriginProperties(spec, tk, fk) ==
  IF OriginOf(tk, fk).kind = "field"
  THEN Get(Get(spec.fields, OriginOf(tk, fk).k[1]).v, fk).v.properties
  ELSE Get(Get(spec.fields, FindByKey(spec.types, tk).v.k).v, fk).v.properties

FromTable(tk, fk) == OriginOf(tk, fk).kind = "field" /\ OriginOf(tk, fk).v.kind = "Table"

SetInTable(tk, fk, p) == FromTable(tk, fk) /\ ContainsKey(OriginOf(tk, fk).v.t, p)

\* The value a profile gives explicitly, as config holds it.
Explicit(ty, v) == IF Value_new(ty, v).some THEN Value_new(ty, v).v ELSE Value_default(ty)

\* C5 as stated: whichever form enabled a field of a returned Profile, its
\* defaulted properties that the document does not set are in config with
\* the default, and the properties the document sets with the given value.
C5_Original ==
  Returned =>
    \A c \in 1..Len(profile.config) : \A f \in 1..Len(profile.config[c].v) :
      LET tk == profile.config[c].k
          fk == profile.config[c].v[f].k
          props == profile.config[c].v[f].v
          decl == OriginProperties(TheSpec, tk, fk)
      IN \A p \in 1..Len(decl) :
           IF SetInTable(tk, fk, decl[p].k)
           THEN Get(props, decl[p].k)
                  = Some(Explicit(decl[p].v.ty, Get(OriginOf(tk, fk).v.t, decl[p].k).v))
           ELSE decl[p].v.default.some => Get(props, decl[p].k) = decl[p].v.default

\* C5: a field whose entry in config was last written by a table entry
\* holds every property the table sets with the given value (coerced, or
\* the zero value of its type), every other property that has a default
\* with the default, and no further property; a field enabled by a boolean
\* `true` or by a bare string under [config] and not written by a table
\* since holds no property at all.
C5_TableMerge ==
  (Reading \/ Returned) =>
    \A c \in 1..Len(profile.config) : \A f \in 1..Len(profile.config[c].v) :
      LET tk == profile.config[c].k
          fk == profile.config[c].v[f].k
          props == profile.config[c].v[f].v
          decl == OriginProperties(TheSpec, tk, fk)
      IN IF FromTable(tk, fk)
         THEN /\ Range(Keys(props)) \subseteq Range(Keys(decl))
              /\ \A p \in 1..Len(decl) :
                   IF SetInTable(tk, fk, decl[p].k)
                   THEN Get(props, decl[p].k)
                          = Some(Explicit(decl[p].v.ty,
                                          Get(OriginOf(tk, fk).v.t, decl[p].k).v))
                   ELSE Get(props, decl[p].k) = decl[p].v.default
         ELSE props = <<>>

\* A Profile holding a field whose table set the bool property q and left
\* out the defaulted u8 property p.
C5_Witness ==
  /\ profile.pc = "done"
  /\ \E c \in 1..Len(profile.config) : \E f \in 1..Len(profile.config[c].v) :
       /\ FromTable(profile.config[c].k, profile.config[c].v[f].k)
       /\ OriginOf(profile.config[c].k, profile.config[c].v[f].k).v.t
            = <<KV(Name.q, TBool(FALSE))>>
       /\ Get(profile.config[c].v[f].v, Name.p) = Some(Val("U8", <<1>>))
       /\ Get(profile.config[c].v[f].v, Name.q) = Some(Val("Bool", FALSE))

\* The type a property table of a schema declares.
DeclaredType(pt) == OptAndThen(OptAndThen(TGet(pt, Lit.type), as_str), Type_parse)

\* A property table whose default cannot be coerced to its declared type.
BadDefault(pt) ==
  /\ pt.kind = "Table"
  /\ DeclaredType(pt).some
  /\ TGet(pt, Lit.default).some
  /\ ~Value_new(DeclaredType(pt).v, TGet(pt, Lit.default).v).some

\* The property tables of a field body, and the same of a whole document
\* as <<category, field, property, declared type>>.
PropertyTables(body) ==
  IF body.kind = "Table" /\ OptAndThen(TGet(body, Lit.properties), as_table).some
  THEN TGet(body, Lit.properties).v.t
  ELSE <<>>

BadDefaults(doc) ==
  UNION { UNION { { <<doc[c].k, doc[c].v.t[f].k, PropertyTables(doc[c].v.t[f].v)[p].k,
                      DeclaredType(PropertyTables(doc[c].v.t[f].v)[p].v).v>> :
                    p \in { q \in 1..Len(PropertyTables(doc[c].v.t[f].v)) :
                              BadDefault(PropertyTables(doc[c].v.t[f].v)[q].v) } } :
                  f \in 1..Len(doc[c].v.t) } :
          c \in { d \in 1..Len(doc) : doc[d].k # Lit.spec /\ doc[d].v.kind = "Table" } }

\* The document with every such default left out.
DropDefault(pt) ==
  IF BadDefault(pt) THEN TTbl(SelectSeq(pt.t, LAMBDA e : e.k # Lit.default)) ELSE pt

MapValues(t, F(_)) == [i \in 1..Len(t) |-> KV(t[i].k, F(t[i].v))]

MapTable(v, F(_)) == IF v.kind = "Table" THEN TTbl(MapValues(v.t, F)) ELSE v

FixBody(body) ==
  IF body.kind = "Table"
  THEN TTbl([i \in 1..Len(body.t) |->
               IF body.t[i].k = Lit.properties
               THEN KV(Lit.properties, MapTable(body.t[i].v, DropDefault))
               ELSE body.t[i]])
  ELSE body

FixSection(sec) == MapTable(sec, FixBody)

WithoutBadDefaults(doc) ==
  [i \in 1..Len(doc) |-> IF doc[i].k = Lit.spec THEN doc[i]
                         ELSE KV(doc[i].k, FixSection(doc[i].v))]

\* C6: a schema document with a property default that cannot be coerced to
\* the declared type yields no Spec, and, the document being sound without
\* such defaults, its error is InvalidFieldType on `default` naming the
\* path category.field.properties.name of such a property. A property
\* value of a profile table that cannot be coerced does not fail the
\* parse: config holds Value::default of the declared type for it.
C6_Asymmetric ==
  /\ (schema.pc = "parsed" /\ schema.raw.kind = "Table" /\ BadDefaults(schema.raw.t) # {}) =>
       /\ ~IsOk(schema.res)
       /\ IsOk(Spec_parse_str(TTbl(WithoutBadDefaults(schema.raw.t)))) =>
            \E b \in BadDefaults(schema.raw.t) :
              schema.res = Err(InvalidFieldType(
                                 Join(<<b[1], b[2], Lit.properties, b[3]>>, Lit.dot),
                                 Lit.default, Type_as_str(b[4])))
  /\ (Read("field") /\ profile.last.v.kind = "Table"
        /\ ~LastUnknown(TheSpec, profile.last)) => profile.pc # "failed"
  /\ (Reading \/ Returned) =>
       \A c \in 1..Len(profile.config) : \A f \in 1..Len(profile.config[c].v) :
         LET tk == profile.config[c].k
             fk == profile.config[c].v[f].k
             decl == OriginProperties(TheSpec, tk, fk)
         IN \A p \in 1..Len(decl) :
              (/\ SetInTable(tk, fk, decl[p].k)
               /\ ~Value_new(decl[p].v.ty, Get(OriginOf(tk, fk).v.t, decl[p].k).v).some) =>
                 Get(profile.config[c].v[f].v, decl[p].k)
                   = Some(Value_default(decl[p].v.ty))

\* A schema whose u8 property a.f.properties.p has the default 300 has been
\* refused for that default.
C6_Witness ==
  /\ schema.pc = "parsed"
  /\ schema.raw.kind = "Table"
  /\ \E b \in BadDefaults(schema.raw.t) : b = <<Name.a, Name.f, Name.p, "U8">>
  /\ IsErr(schema.res)
  /\ schema.res.e.variant = "InvalidFieldType"
  /\ schema.res.e.key = Lit.default

----------------------------------------------------------------------------
(* C7, C8 *)

\* The projection of a returned Profile has been computed.
Projected(op) == profile.pc = "projected" /\ profile.op = op

\* Map m holds the Value v under key k.
Holds(m, k, v) ==
  /\ ContainsKey(m, k)
  /\ Get(m, k).v.tag = v.tag
  /\ Get(m, k).v.v = v.v

IsSingle(spec, tk) == FindByKey(spec.types, tk).v.v.is_single

KeyOf(parts) == to_snake_case(Join(parts, Lit.underscore))

\* The entry the claim gives field fk of the category key tk.
OwnFlag(spec, tk, fk) ==
  IF IsSingle(spec, tk)
  THEN KV(KeyOf(<<tk>>), Val("String", fk))
  ELSE KV(KeyOf(<<tk, fk>>), Val("Bool", TRUE))

\* C7 as stated: the flag map holds, for every enabled field without
\* properties, the entry of its category's kind, and for every property a
\* field holds the entry c_F_P with the property's value.
C7_Original ==
  Projected("cfg_flags_map") =>
    /\ IsOk(profile.out)
    /\ \A c \in 1..Len(profile.config) : \A f \in 1..Len(profile.config[c].v) :
         LET tk == profile.config[c].k
             fk == profile.config[c].v[f].k
             props == profile.config[c].v[f].v
         IN /\ props = <<>> =>
                 Holds(profile.out.v, OwnFlag(TheSpec, tk, fk).k,
                       OwnFlag(TheSpec, tk, fk).v)
            /\ \A p \in 1..Len(props) :
                 Holds(profile.out.v, KeyOf(<<tk, fk, props[p].k>>), props[p].v)

\* The entries the projection writes, in the order of config: per field its
\* own entry, then one entry per property.
FieldFlags(spec, tk, field) ==
  <<OwnFlag(spec, tk, field.k)>>
    \o [p \in 1..Len(field.v) |-> KV(KeyOf(<<tk, field.k, field.v[p].k>>), field.v[p].v)]

RECURSIVE CategoryFlags(_, _, _)
CategoryFlags(spec, tk, fields) ==
  IF fields = <<>> THEN <<>>
  ELSE FieldFlags(spec, tk, Head(fields)) \o CategoryFlags(spec, tk, Tail(fields))

RECURSIVE ConfigFlags(_, _)
ConfigFlags(spec, config) ==
  IF config = <<>> THEN <<>>
  ELSE CategoryFlags(spec, Head(config).k, Head(config).v)
         \o ConfigFlags(spec, Tail(config))

\* C7: the flag map holds a key for every entry the projection writes (for
\* each enabled field, with or without properties, the entry of its
\* category's kind: snake_case(c) with String(F) if is_single, else
\* snake_case(c_F) with Bool(true); for each property snake_case(c_F_P)
\* with its value) and no other key; an entry's value is as written unless
\* a later entry composes the same key, whose value then stands.
C7_UnlessOverwritten ==
  Projected("cfg_flags_map") =>
    LET w == ConfigFlags(TheSpec, profile.config)
    IN /\ IsOk(profile.out)
       /\ DistinctKeys(profile.out.v)
       /\ Range(Keys(profile.out.v)) = Range(Keys(w))
       /\ \A i \in 1..Len(w) :
            (\A j \in (i + 1)..Len(w) : w[j].k # w[i].k) =>
               Holds(profile.out.v, w[i].k, w[i].v)

\* The projection of a Profile with a field of an is_single category and a
\* field with a property of another category, no key written twice.
C7_Witness ==
  /\ Projected("cfg_flags_map")
  /\ DistinctKeys(ConfigFlags(TheSpec, profile.config))
  /\ \E c, d \in 1..Len(profile.config) :
       /\ IsSingle(TheSpec, profile.config[c].k)
       /\ ~IsSingle(TheSpec, profile.config[d].k)
       /\ \E f \in 1..Len(profile.config[d].v) : profile.config[d].v[f].v # <<>>

\* The flags rustc_cfg_flags is given, and those it does not skip.
FlagMap == cfg_flags_map(TheSpec, profile.config).v

Kept(map) == SelectSeq(map, LAMBDA e : ~(e.v.tag = "Bool" /\ e.v.v = FALSE))

\* The token 'k' or 'k=..': quoted, one piece.
QuotedToken(tok, k, bare) ==
  /\ Len(tok) >= Len(k) + 2
  /\ tok[1] = "'"
  /\ tok[Len(tok)] = "'"
  /\ SubSeq(tok, 2, Len(k) + 1) = k
  /\ IF bare THEN Len(tok) = Len(k) + 2
     ELSE Len(tok) > Len(k) + 3 /\ tok[Len(k) + 2] = "="

\* C8: rustc_cfg_flags emits nothing for a flag that is Bool(false) and,
\* in the order of the flag map, the marker --cfg and one quoted token for
\* every other flag: twice as many tokens as such flags, a Bool(true) flag
\* as the bare key, any other as key=value.
C8_PairsOfKept ==
  Projected("rustc_cfg_flags") =>
    /\ IsOk(profile.out)
    /\ Len(profile.out.v) = 2 * Len(Kept(FlagMap))
    /\ \A i \in 1..Len(Kept(FlagMap)) :
         /\ profile.out.v[2 * i - 1] = Lit.cfg
         /\ QuotedToken(profile.out.v[2 * i], Kept(FlagMap)[i].k,
                        Kept(FlagMap)[i].v.tag = "Bool")

\* The tokens of a Profile whose flags hold a Bool(false), a Bool(true) and
\* an integer.
C8_Witness ==
  /\ Projected("rustc_cfg_flags")
  /\ \E i, j, k \in 1..Len(FlagMap) :
       /\ FlagMap[i].v.tag = "Bool" /\ ~FlagMap[i].v.v
       /\ FlagMap[j].v.tag = "Bool" /\ FlagMap[j].v.v
       /\ FlagMap[k].v.tag = "U8"
  /\ Len(profile.out.v) = 2 * (Len(FlagMap) - 1)

----------------------------------------------------------------------------
(* C11, C12 *)

\* C11 as stated: in every Profile returned, the config of the key of an
\* is_single category holds at most one field.
C11_AtMostOne ==
  Returned =>
    \A c \in 1..Len(profile.config) :
      (\E i \in CategoriesOf(TheSpec, profile.config[c].k) : TheSpec.types[i].v.is_single)
         => Len(profile.config[c].v) <= 1

\* The zero payload of a type.
ZeroPayload(ty, v) ==
  CASE ty = "String" -> v = <<>>
    [] ty = "Bool" -> v = FALSE
    [] OTHER -> Len(v) = (IF Bits(ty) = 64 THEN 4 ELSE IF Bits(ty) = 32 THEN 2 ELSE 1)
                /\ \A i \in 1..Len(v) : v[i] = 0

\* C12: every Value in the config of a Profile, while it is read and when
\* it is returned, has the tag of the type its property declares, be it
\* coerced, the zero value after a failed coercion or a back-filled
\* default; every default of a returned Spec has the tag of its PropSpec's
\* ty; Value::default(t) has tag t and the zero payload.
C12_TagMatchesType ==
  /\ (Reading \/ Returned) =>
       \A c \in 1..Len(profile.config) : \A f \in 1..Len(profile.config[c].v) :
         LET decl == OriginProperties(TheSpec, profile.config[c].k,
                                      profile.config[c].v[f].k)
             props == profile.config[c].v[f].v
         IN \A p \in 1..Len(props) :
              /\ ContainsKey(decl, props[p].k)
              /\ props[p].v.tag = Get(decl, props[p].k).v.ty
  /\ (schema.pc = "parsed" /\ IsOk(schema.res)) =>
       \A c \in 1..Len(schema.res.v.fields) : \A f \in 1..Len(schema.res.v.fields[c].v) :
         LET decl == schema.res.v.fields[c].v[f].v.properties
         IN \A p \in 1..Len(decl) :
              decl[p].v.default.some => decl[p].v.default.v.tag = decl[p].v.ty
  /\ value.pc = "default" =>
       /\ value.res.v.tag = value.ty
       /\ ZeroPayload(value.ty, value.res.v.v)

\* A Profile whose field holds the zero of u8 for the refused 300 beside a
\* coerced bool, under a schema whose default is a u8.
C12_Witness ==
  /\ profile.pc = "done"
  /\ \E c \in 1..Len(profile.config) : \E f \in 1..Len(profile.config[c].v) :
       /\ Holds(profile.config[c].v[f].v, Name.p, Val("U8", <<0>>))
       /\ \E p \in 1..Len(OriginProperties(TheSpec, profile.config[c].k,
                                           profile.config[c].v[f].k)) :
            OriginProperties(TheSpec, profile.config[c].k,
                             profile.config[c].v[f].k)[p].v.default.some

----------------------------------------------------------------------------
(* C13 *)

\* The writes of w that are the first, and the last, for their key.
FirstWrite(w, i) == \A j \in 1..(i - 1) : w[j].k # w[i].k
LastWrite(w, i) == \A j \in (i + 1)..Len(w) : w[j].k # w[i].k

\* The number of first writes among w[1..i].
RECURSIVE FirstWrites(_, _)
FirstWrites(w, i) ==
  IF i = 0 THEN 0
  ELSE FirstWrites(w, i - 1) + (IF FirstWrite(w, i) THEN 1 ELSE 0)

\* The place of the key of w[i]: that of its first write.
PlaceOf(w, i) ==
  FirstWrites(w, CHOOSE j \in 1..i : w[j].k = w[i].k /\ FirstWrite(w, j))

\* C13: the flag map has one entry for every key the traversal of config
\* composes (categories in config order, fields in order, a field's own
\* entry before its properties); the entries stand in the order of the
\* first write of their key, and an entry's value is that of the last
\* write of its key.
C13_LastWriteFirstPlace ==
  Projected("cfg_flags_map") =>
    LET w == ConfigFlags(TheSpec, profile.config)
        out == profile.out.v
    IN /\ IsOk(profile.out)
       /\ Len(out) = FirstWrites(w, Len(w))
       /\ \A i \in 1..Len(w) :
            /\ out[PlaceOf(w, i)].k = w[i].k
            /\ LastWrite(w, i) =>
                 /\ out[PlaceOf(w, i)].v.tag = w[i].v.tag
                 /\ out[PlaceOf(w, i)].v.v = w[i].v.v

\* A projection where a property write lands on a key written before,
\* with the write of another key between the two.
C13_Witness ==
  /\ Projected("cfg_flags_map")
  /\ IsOk(profile.out)
  /\ LET w == ConfigFlags(TheSpec, profile.config)
     IN \E i, m, j \in 1..Len(w) :
          /\ i < m /\ m < j
          /\ w[i].k = w[j].k
          /\ w[m].k # w[i].k
          /\ w[i].v.tag # w[j].v.tag
          /\ profile.out.v[1].k = w[i].k
          /\ profile.out.v[1].v.tag = w[j].v.tag

----------------------------------------------------------------------------
(* C14 *)

\* The features argument: every feature quoted, joined by commas.
FeatureList(features) ==
  Join([i \in 1..Len(features) |-> <<"\"">> \o features[i] \o <<"\"">>], <<",">>)

\* Group g is the tokens core, followed by the features argument exactly
\* when there are features.
GroupOf(g, core, features) ==
  IF features = <<>> THEN g = core
  ELSE g = core \o <<Lit.dash_features, FeatureList(features)>>

\* C14 as stated: cargo_flags returns one group per binary in the order of
\* bins, then one per library in the order of libs; a binary name holding
\* a `/` gives -p <prefix> --bin <name> where <prefix>/<name> is the whole
\* name, any other binary --bin <name>, a library --lib <name>; a group
\* ends with --features and the quoted comma-joined features exactly when
\* features is not empty.
C14_Groups ==
  Projected("cargo_flags") =>
    LET out == profile.out.v
        nb == Len(profile.bins)
    IN /\ IsOk(profile.out)
       /\ Len(out) = nb + Len(profile.libs)
       /\ \A i \in 1..nb :
            IF Contains(profile.bins[i], <<"/">>)
            THEN /\ Len(out[i]) >= 4
                 /\ GroupOf(out[i], <<Lit.dash_p, out[i][2], Lit.dash_bin, out[i][4]>>,
                            profile.features)
                 /\ out[i][2] \o <<"/">> \o out[i][4] = profile.bins[i]
            ELSE GroupOf(out[i], <<Lit.dash_bin, profile.bins[i]>>, profile.features)
       /\ \A i \in 1..Len(profile.libs) :
            GroupOf(out[nb + i], <<Lit.dash_lib, profile.libs[i]>>, profile.features)

----------------------------------------------------------------------------
(* C16 *)

\* Field fk is in the map of category key tk of cfg, and its properties.
Enabled(cfg, tk, fk) == ContainsKey(cfg, tk) /\ ContainsKey(Get(cfg, tk).v, fk)
PropsOf(cfg, tk, fk) == Get(Get(cfg, tk).v, fk).v

\* cfg2 is cfg but for the properties of field fk of category key tk.
SameButFor(cfg, cfg2, tk, fk) ==
  /\ Keys(cfg2) = Keys(EntryOrDefault(cfg, tk, <<>>))
  /\ \A c \in 1..Len(cfg2) :
       IF cfg2[c].k # tk THEN cfg2[c] = cfg[c]
       ELSE LET old == IF ContainsKey(cfg, tk) THEN Get(cfg, tk).v ELSE <<>>
            IN /\ Keys(cfg2[c].v) = Keys(EntryOrDefault(old, fk, <<>>))
               /\ \A f \in 1..Len(cfg2[c].v) :
                    cfg2[c].v[f].k # fk => cfg2[c].v[f] = old[f]

\* The properties a table entry t gives a field with declared properties
\* decl: the keys of t, then the defaulted properties t leaves out.
TableKeys(decl, t) ==
  Range(Keys(t)) \cup { decl[p].k : p \in { q \in 1..Len(decl) : decl[q].v.default.some } }

\* C16: while a profile is read and until it is returned, no step takes a
\* field out of config; a boolean `false` entry of a declared field leaves
\* config as it is; a boolean `true` entry of a field already in config
\* leaves config as it is, property map included; a table entry gives the
\* field exactly the properties of the table and the defaults, whatever
\* it held, and touches nothing else. A field selected under [config] is
\* still in config after a `false` entry for it.
C16_Step ==
  (Reading /\ profile'.pc \in {"config", "sections", "fields", "done"}) =>
    /\ \A c \in 1..Len(profile.config) : \A f \in 1..Len(profile.config[c].v) :
         Enabled(profile'.config, profile.config[c].k, profile.config[c].v[f].k)
    /\ profile'.pc = "done" => profile'.config = profile.config
    /\ (profile.pc = "fields" /\ profile'.n = profile.n + 1) =>
         LET xv == profile'.last.v
             tk == profile.cur.key
             fk == profile'.last.k[2]
         IN CASE xv.kind = "Boolean" /\ ~xv.b -> profile'.config = profile.config
              [] xv.kind = "Boolean" /\ xv.b ->
                   /\ Enabled(profile.config, tk, fk) => profile'.config = profile.config
                   /\ ~Enabled(profile.config, tk, fk) =>
                        /\ SameButFor(profile.config, profile'.config, tk, fk)
                        /\ PropsOf(profile'.config, tk, fk) = <<>>
              [] xv.kind = "Table" ->
                   /\ SameButFor(profile.config, profile'.config, tk, fk)
                   /\ Range(Keys(PropsOf(profile'.config, tk, fk)))
                        = TableKeys(Get(Get(profile.spec.fields, profile.cur.index).v,
                                        fk).v.properties, xv.t)
              [] OTHER -> FALSE

C16_Monotonic == [][C16_Step]_vars

\* A returned Profile whose last entry was a boolean `false` for a field
\* selected under [config], which is in config.
C16_Witness ==
  /\ profile.pc = "done"
  /\ profile.last.kind = "field"
  /\ profile.last.v.kind = "Boolean"
  /\ ~profile.last.v.b
  /\ Enabled(profile.config, profile.cur.key, profile.last.k[2])
  /\ OriginOf(profile.cur.key, profile.last.k[2]).kind = "config"

----------------------------------------------------------------------------
(* C15 *)

\* load_data is running: its schema directory, the files that do not
\* parse, and the file named main.
Loading == profile.pc # "idle"

Unsound(files) == { i \in 1..Len(files) : ~IsOk(Spec_parse_str(files[i].raw)) }

MainFiles(files) == { i \in 1..Len(files) : files[i].stem = Lit.main }

\* C15 as stated: load_data begins no profile before every schema file has
\* been parsed successfully and a schema named main has been found; if a
\* schema does not parse or none is named main, it returns an error
\* (MissingMainSpec for the latter) and no profile is parsed; a profile is
\* parsed against the schema of main and no other.
C15_LoaderOrdering ==
  Loading =>
    /\ profile.pc # "wait" =>
         /\ schema.pc = "parsed"
         /\ Len(schema.specs) = Len(schema.files)
         /\ Unsound(schema.files) = {}
         /\ MainFiles(schema.files) # {}
         /\ profile.pc # "failed" =>
              \A i \in MainFiles(schema.files) :
                profile.spec = Spec_parse_str(schema.files[i].raw).v
    /\ (Unsound(schema.files) # {} \/ MainFiles(schema.files) = {}) =>
         /\ profile.pc = "wait"
         /\ schema.pc \in {"specs", "failed"}
         /\ schema.pc = "failed" =>
              /\ IsErr(schema.res)
              /\ Unsound(schema.files) = {} => schema.res = Err(MissingMainSpec)
    /\ schema.pc = "failed" =>
         (Unsound(schema.files) # {} \/ MainFiles(schema.files) = {})

====
